---------------------------- MODULE Spec2Model ----------------------------
(***************************************************************************)
(* Position re-anchoring engine of legal-codex-v2:                         *)
(*   PositionService        (annotation/services/PositionService.ts)       *)
(*   TextMatchingAlgorithm  (annotation/algorithms/TextMatchingAlgorithm)  *)
(*   StructuralAnalyzer     (annotation/algorithms/StructuralAnalyzer)     *)
(*   HashUtil               (annotation/utils/hashUtils)                   *)
(*                                                                         *)
(* A JavaScript string is a sequence of UTF-16 code units (naturals).      *)
(* Offsets are 0-based as in the source; Slice and IndexOf follow          *)
(* String.prototype.slice / indexOf.  A number of the source that is a     *)
(* fraction (a similarity, a confidence) is an IEEE-754 double, and every  *)
(* + - * / on it rounds to the nearest double, ties to even.               *)
(***************************************************************************)
EXTENDS Integers, Sequences, FiniteSets, TLC

(***************************************************************************)
(* Doubles.  A double is s * m * 2^e: s the sign (1 or -1), e an integer   *)
(* and m the significand, a natural number below 2^53 that is odd, or 0    *)
(* with s = 1 and e = 0.  m is written in limbs of 13 bits, the least      *)
(* first (<<3277, 1638, 4915, 6553>> is 3277 + 1638 * 8192 + ...); 0 is    *)
(* the empty sequence.  Every double has one such form, so = compares      *)
(* values.  The numbers of the program stay far from the ends of the       *)
(* exponent range, and no operation on them gives NaN or an infinity.      *)
(***************************************************************************)
Abs(x) == IF x < 0 THEN 0 - x ELSE x
Min(a, b) == IF a <= b THEN a ELSE b
Max(a, b) == IF a >= b THEN a ELSE b

Zero == [s |-> 1, m |-> << >>, e |-> 0]

One == [s |-> 1, m |-> <<1>>, e |-> 0]

\* the arithmetic of doubles and its steps, one for each op; p, q, r, t are
\* the operands of the step, 0 where it has no use for one
RECURSIVE Double(_, _, _, _, _)
Double(op, p, q, r, t) ==
  CASE op = "limbs" ->
         \* the limbs, each in 0..8191, of the natural number that r and the
         \* integers of the sequence p from p[q] on, weighted by the powers
         \* of 8192, add up to
         IF q > Len(p)
         THEN IF r = 0 THEN << >>
              ELSE <<r % 8192>> \o Double("limbs", p, q, r \div 8192, 0)
         ELSE <<(p[q] + r) % 8192>>
                \o Double("limbs", p, q + 1, (p[q] + r) \div 8192, 0)
    [] op = "strip" ->
         \* p without the zeros at its end
         IF p # << >> /\ p[Len(p)] = 0
         THEN Double("strip", SubSeq(p, 1, Len(p) - 1), 0, 0, 0)
         ELSE p
    [] op = "carry" ->
         \* the limbs of the natural number that the integers of the sequence
         \* p add up to, the last limb not 0
         Double("strip", Double("limbs", p \o << >>, 1, 0, 0), 0, 0, 0)
    [] op = "shift" ->
         \* p * 2^q for q >= 0 and the whole part of p / 2^(-q) for q < 0
         LET limbs == Abs(q) \div 13
             bits == Abs(q) % 13
         IN  IF p = << >> \/ q = 0 THEN p
             ELSE IF q < 0 /\ Len(p) <= limbs THEN << >>
             ELSE Double("carry",
                         IF q > 0
                         THEN [i \in 1..(limbs + Len(p)) |->
                                 IF i <= limbs THEN 0 ELSE p[i - limbs] * 2^bits]
                         ELSE [i \in 1..(Len(p) - limbs) |->
                                 (p[i + limbs] \div 2^bits)
                                 + (IF i + limbs < Len(p)
                                    THEN (p[i + limbs + 1] % 2^bits)
                                           * 2^(13 - bits)
                                    ELSE 0)],
                         0, 0, 0)
    [] op = "odd" ->
         \* the double p * q * 2^r for a significand q, other than 0, of 53
         \* bits or fewer: the zeros at its low end go to the exponent
         LET z == CHOOSE j \in 0..(Len(q) - 1) :
                    q[j + 1] # 0 /\ \A i \in 1..j : q[i] = 0
             b == CHOOSE j \in 0..12 : (q[z + 1] \div 2^j) % 2 = 1
                                       /\ q[z + 1] % 2^j = 0
         IN  [s |-> p, m |-> Double("shift", q, 0 - (13 * z + b), 0, 0),
              e |-> r + 13 * z + b]
    [] op = "nearest" ->
         \* the double nearest to p * (q + f) * 2^(r - d) when q has d bits
         \* more than 53: t[1] are the bits kept, bit t[3] of q[t[2]] is the
         \* highest one dropped, and 0 < f < 1 when t[4], f = 0 otherwise.  A
         \* tie goes to the even significand
         IF /\ (q[t[2]] \div 2^t[3]) % 2 = 1
            /\ \/ q[t[2]] % 2^t[3] # 0
               \/ \E i \in 1..(t[2] - 1) : q[i] # 0
               \/ t[4]
               \/ t[1][1] % 2 = 1
         THEN Double("odd", p,
                     Double("carry", [t[1] EXCEPT ![1] = @ + 1], 0, 0, 0), r, 0)
         ELSE Double("odd", p, t[1], r, 0)
    [] op = "round" ->
         \* the double nearest to p * (q + f) * 2^r, where 0 < f < 1 when t
         \* and f = 0 otherwise: 53 bits are kept
         LET drop == 13 * (Len(q) - 1)
                     + (CHOOSE b \in 1..13 : q[Len(q)] \div 2^(b - 1) = 1)
                     - 53
         IN  IF q = << >> THEN Zero
             ELSE IF drop <= 0 THEN Double("odd", p, q, r, 0)
             ELSE Double("nearest", p, q, r + drop,
                         <<Double("shift", q, 0 - drop, 0, 0),
                           (drop - 1) \div 13 + 1, (drop - 1) % 13, t>>)
    [] op = "sum" ->
         \* (t[1] * p + t[2] * q) * 2^r for the significands p and q
         LET n == Max(Len(p), Len(q))
             At(v, i) == IF i <= Len(v) THEN v[i] ELSE 0
             less == \E i \in 1..n : /\ At(p, i) < At(q, i)
                                     /\ \A j \in (i + 1)..n : At(p, j) = At(q, j)
         IN  IF t[1] = t[2] \/ ~less
             THEN Double("round", t[1],
                         Double("carry",
                                [i \in 1..n |->
                                   At(p, i) + (t[1] * t[2]) * At(q, i)],
                                0, 0, 0),
                         r, FALSE)
             ELSE Double("round", t[2],
                         Double("carry", [i \in 1..n |-> At(q, i) - At(p, i)],
                                0, 0, 0),
                         r, FALSE)
    [] op = "add" ->
         \* p + q: the significands are moved to the smaller exponent
         IF p.m = << >> THEN q
         ELSE IF q.m = << >> THEN p
         ELSE Double("sum",
                     Double("shift", p.m, p.e - Min(p.e, q.e), 0, 0),
                     Double("shift", q.m, q.e - Min(p.e, q.e), 0, 0),
                     Min(p.e, q.e), <<p.s, q.s>>)
    [] op = "column" ->
         \* the sum of the p[i] * q[r - i] from i = t on
         IF t > Len(p) THEN 0
         ELSE (IF r - t \in 1..Len(q) THEN p[t] * q[r - t] ELSE 0)
              + Double("column", p, q, r, t + 1)
    [] op = "mul" ->
         \* p * q
         IF p.m = << >> \/ q.m = << >> THEN Zero
         ELSE Double("round", p.s * q.s,
                     Double("carry",
                            [k \in 1..(Len(p.m) + Len(q.m)) |->
                               Double("column", p.m, q.m, k + 1, 1)],
                            0, 0, 0),
                     p.e + q.e, FALSE)
    [] op = "digit" ->
         \* the limbs of the quotient of p by q from the one of p[r] down,
         \* the highest first, and then 1 if a remainder is left and 0 if
         \* not; t is the remainder so far with p[r] brought down.  The limb
         \* is at most 2 below the guess from the top limbs of t
         LET n == Len(q)
             At(v, i) == IF i <= Len(v) THEN v[i] ELSE 0
             Times(d) == Double("carry", [j \in 1..n |-> d * q[j]], 0, 0, 0)
             Covers(taken) ==
               ~\E i \in 1..(n + 1) :
                  /\ At(t, i) < At(taken, i)
                  /\ \A j \in (i + 1)..(n + 1) : At(t, j) = At(taken, j)
             guess == Min(8191, (At(t, n + 1) * 8192 + At(t, n)) \div q[n])
             Taken(digit, taken) ==
               <<digit>>
               \o Double("long", p, q, r - 1,
                         Double("carry",
                                [j \in 1..(n + 1) |-> At(t, j) - At(taken, j)],
                                0, 0, 0))
             With(digit) == Taken(digit, Times(digit))
         IN  With(IF Covers(Times(guess)) THEN guess
                  ELSE IF Covers(Times(guess - 1)) THEN guess - 1
                  ELSE guess - 2)
    [] op = "long" ->
         \* the same before p[r] is brought down to the remainder t, from
         \* the highest limb when r = -1
         IF r = 0 THEN <<IF t = << >> THEN 0 ELSE 1>>
         ELSE IF r < 0 THEN Double("long", p, q, Len(p), t)
         ELSE Double("digit", p, q, r, Double("carry", <<p[r]>> \o t, 0, 0, 0))
    [] op = "quotient" ->
         \* the double of sign p whose significand has the limbs q, the
         \* highest first, followed by whether a remainder is left
         Double("round", p,
                Double("carry", [i \in 1..(Len(q) - 1) |-> q[Len(q) - i]],
                       0, 0, 0),
                r, q[Len(q)] # 0)
    [] op = "div" ->
         \* p / q for q other than 0: long division, a limb of the quotient
         \* at a time.  The divisor is moved up to fill its limbs, and the
         \* dividend so that the quotient has 55 bits or more
         LET Width(N) == 13 * (Len(N) - 1)
                         + (CHOOSE w \in 1..13 : N[Len(N)] \div 2^(w - 1) = 1)
             up == 13 * Len(q.m) - Width(q.m)
             limbs == (55 + Width(q.m) - Width(p.m)) \div 13 + 1
         IN  IF p.m = << >> THEN Zero
             ELSE IF q.m = <<1>> THEN [s |-> p.s * q.s, m |-> p.m, e |-> p.e - q.e]
             ELSE Double("quotient", p.s * q.s,
                         Double("long",
                                Double("shift", p.m, up + 13 * limbs, 0, 0),
                                Double("shift", q.m, up, 0, 0),
                                0 - 1, << >>) \o << >>,
                         p.e - q.e - 13 * limbs, 0)
    [] op = "int" ->
         \* the integer p
         Double("round", IF p < 0 THEN 0 - 1 ELSE 1,
                Double("carry", <<Abs(p)>>, 0, 0, 0), 0, FALSE)
    [] op = "rat" ->
         \* p / q of two integers
         IF q = 1 THEN Double("int", p, 0, 0, 0)
         ELSE Double("div", Double("int", p, 0, 0, 0), Double("int", q, 0, 0, 0),
                     0, 0)

\* x + y
RAdd(x, y) == Double("add", x, y, 0, 0)

\* x - y
RSub(x, y) ==
  IF y.m = << >> THEN x ELSE Double("add", x, [y EXCEPT !.s = 0 - @], 0, 0)

\* x * y
RMul(x, y) == Double("mul", x, y, 0, 0)

\* x / y
RDiv(x, y) == Double("div", x, y, 0, 0)

\* the doubles of the decimal literals of up to two places, as they are read:
\* Decimal[68] is 0.68, the double nearest to 68 / 100.  A row of the
\* table is the exponent, negated, and the five limbs of the significand
Decimal ==
  LET table ==
    <<
       0, 0, 0, 0, 0, 0, 59, 5243, 7536, 6225, 2293, 1, 58, 5243, 7536, 6225,
       2293, 1, 55, 983, 2949, 655, 1966, 0, 57, 5243, 7536, 6225, 2293, 1,
       56, 3277, 1638, 4915, 6553, 0, 54, 983, 2949, 655, 1966, 0, 54, 5243,
       7536, 6225, 2293, 0, 56, 5243, 7536, 6225, 2293, 1, 55, 2949, 655,
       1966, 5898, 0, 55, 3277, 1638, 4915, 6553, 0, 56, 7209, 5242, 7536,
       6225, 1, 53, 983, 2949, 655, 1966, 0, 53, 7209, 5242, 7536, 2129, 0,
       53, 5243, 7536, 6225, 2293, 0, 55, 4915, 6553, 3276, 1638, 1, 55,
       5243, 7536, 6225, 2293, 1, 55, 5571, 327, 983, 2949, 1, 54, 2949, 655,
       1966, 5898, 0, 54, 7209, 5242, 7536, 6225, 0, 54, 3277, 1638, 4915,
       6553, 0, 55, 6881, 4259, 4587, 5570, 1, 55, 7209, 5242, 7536, 6225, 1,
       55, 7537, 6225, 2293, 6881, 1, 52, 983, 2949, 655, 1966, 0, 2, 1, 0,
       0, 0, 0, 52, 7209, 5242, 7536, 2129, 0, 51, 7209, 5242, 7536, 1105, 0,
       52, 5243, 7536, 6225, 2293, 0, 54, 655, 1966, 5898, 1310, 1, 54, 4915,
       6553, 3276, 1638, 1, 54, 983, 2949, 655, 1966, 1, 54, 5243, 7536,
       6225, 2293, 1, 54, 1311, 3932, 3604, 2621, 1, 54, 5571, 327, 983,
       2949, 1, 53, 4915, 6553, 3276, 5734, 0, 53, 2949, 655, 1966, 5898, 0,
       53, 983, 2949, 655, 6062, 0, 53, 7209, 5242, 7536, 6225, 0, 53, 5243,
       7536, 6225, 6389, 0, 53, 3277, 1638, 4915, 6553, 0, 54, 2621, 7864,
       7208, 5242, 1, 54, 6881, 4259, 4587, 5570, 1, 54, 2949, 655, 1966,
       5898, 1, 54, 7209, 5242, 7536, 6225, 1, 54, 3277, 1638, 4915, 6553, 1,
       54, 7537, 6225, 2293, 6881, 1, 52, 2949, 655, 1966, 3850, 0, 51, 983,
       2949, 655, 1966, 0, 52, 983, 2949, 655, 4014, 0, 1, 1, 0, 0, 0, 0, 52,
       7209, 5242, 7536, 4177, 0, 51, 7209, 5242, 7536, 2129, 0, 52, 5243,
       7536, 6225, 4341, 0, 50, 7209, 5242, 7536, 1105, 0, 52, 3277, 1638,
       4915, 4505, 0, 51, 5243, 7536, 6225, 2293, 0, 53, 2621, 7864, 7208,
       1146, 1, 53, 655, 1966, 5898, 1310, 1, 53, 6881, 4259, 4587, 1474, 1,
       53, 4915, 6553, 3276, 1638, 1, 53, 2949, 655, 1966, 1802, 1, 53, 983,
       2949, 655, 1966, 1, 53, 7209, 5242, 7536, 2129, 1, 53, 5243, 7536,
       6225, 2293, 1, 53, 3277, 1638, 4915, 2457, 1, 53, 1311, 3932, 3604,
       2621, 1, 53, 7537, 6225, 2293, 2785, 1, 53, 5571, 327, 983, 2949, 1,
       51, 2949, 655, 1966, 2826, 0, 52, 4915, 6553, 3276, 5734, 0, 50, 983,
       2949, 655, 1454, 0, 52, 2949, 655, 1966, 5898, 0, 51, 983, 2949, 655,
       2990, 0, 52, 983, 2949, 655, 6062, 0, 2, 3, 0, 0, 0, 0, 52, 7209,
       5242, 7536, 6225, 0, 51, 7209, 5242, 7536, 3153, 0, 52, 5243, 7536,
       6225, 6389, 0, 50, 7209, 5242, 7536, 1617, 0, 52, 3277, 1638, 4915,
       6553, 0, 51, 5243, 7536, 6225, 3317, 0, 53, 2621, 7864, 7208, 5242, 1,
       53, 655, 1966, 5898, 5406, 1, 53, 6881, 4259, 4587, 5570, 1, 53, 4915,
       6553, 3276, 5734, 1, 53, 2949, 655, 1966, 5898, 1, 53, 983, 2949, 655,
       6062, 1, 53, 7209, 5242, 7536, 6225, 1, 53, 5243, 7536, 6225, 6389, 1,
       53, 3277, 1638, 4915, 6553, 1, 53, 1311, 3932, 3604, 6717, 1, 53,
       7537, 6225, 2293, 6881, 1, 53, 5571, 327, 983, 7045, 1, 51, 2949, 655,
       1966, 3850, 0, 52, 4915, 6553, 3276, 7782, 0, 50, 983, 2949, 655,
       1966, 0, 52, 2949, 655, 1966, 7946, 0, 51, 983, 2949, 655, 4014, 0,
       52, 983, 2949, 655, 8110, 0, 0, 1, 0, 0, 0, 0
    >>
      Last(k) == CHOOSE j \in 0..5 : /\ j = 0 \/ table[6 * k + 1 + j] # 0
                                     /\ \A i \in (j + 1)..5 : table[6 * k + 1 + i] = 0
  IN  [k \in 0..100 |->
         [s |-> 1, m |-> SubSeq(table, 6 * k + 2, 6 * k + 1 + Last(k)),
          e |-> 0 - table[6 * k + 1]]]

\* n / d of two integers, d > 0
Rat(n, d) == Double("rat", n, d, 0, 0)

RLt(x, y) == RSub(x, y).s < 0
RLe(x, y) == ~RLt(y, x)
RMin(x, y) == IF RLt(y, x) THEN y ELSE x
RMax(x, y) == IF RLt(x, y) THEN y ELSE x

(***************************************************************************)
(* Characters: the classes the source's regular expressions name           *)
(***************************************************************************)
\* \w of a JavaScript RegExp: [A-Za-z0-9_]
IsWordChar(c) == c \in (48..57) \cup (65..90) \cup {95} \cup (97..122)

\* 一-鿿
IsCJK(c) == c \in 19968..40959

\* \s of a JavaScript RegExp
IsSpace(c) ==
  c \in (9..13) \cup {32, 160, 5760} \cup (8192..8202)
        \cup {8232, 8233, 8239, 8287, 12288, 65279}

\* what . does not match (no s flag)
IsLineTerminator(c) == c \in {10, 13, 8232, 8233}

\* the ranges of a table that lists them field after field
Ranges(table, width) ==
  {[j \in 1..width |-> table[width * (k - 1) + j]] :
     k \in 1..(Len(table) \div width)}

\* the code points String.prototype.toLowerCase changes into one other code
\* point (Unicode 17): every step-th code point of first..last moves as first
\* moves to image; the table lists first, last, step, image of each range
LowerRanges ==
  Ranges(<<65, 90, 1, 97, 192, 214, 1, 224, 216, 222, 1, 248, 256, 302, 2,
           257, 306, 310, 2, 307, 313, 327, 2, 314, 330, 374, 2, 331, 376,
           376, 1, 255, 377, 381, 2, 378, 385, 385, 1, 595, 386, 388, 2, 387,
           390, 390, 1, 596, 391, 391, 1, 392, 393, 394, 1, 598, 395, 395, 1,
           396, 398, 398, 1, 477, 399, 399, 1, 601, 400, 400, 1, 603, 401,
           401, 1, 402, 403, 403, 1, 608, 404, 404, 1, 611, 406, 406, 1, 617,
           407, 407, 1, 616, 408, 408, 1, 409, 412, 412, 1, 623, 413, 413, 1,
           626, 415, 415, 1, 629, 416, 420, 2, 417, 422, 422, 1, 640, 423,
           423, 1, 424, 425, 425, 1, 643, 428, 428, 1, 429, 430, 430, 1, 648,
           431, 431, 1, 432, 433, 434, 1, 650, 435, 437, 2, 436, 439, 439, 1,
           658, 440, 440, 1, 441, 444, 444, 1, 445, 452, 452, 1, 454, 453,
           453, 1, 454, 455, 455, 1, 457, 456, 456, 1, 457, 458, 458, 1, 460,
           459, 475, 2, 460, 478, 494, 2, 479, 497, 497, 1, 499, 498, 500, 2,
           499, 502, 502, 1, 405, 503, 503, 1, 447, 504, 542, 2, 505, 544,
           544, 1, 414, 546, 562, 2, 547, 570, 570, 1, 11365, 571, 571, 1,
           572, 573, 573, 1, 410, 574, 574, 1, 11366, 577, 577, 1, 578, 579,
           579, 1, 384, 580, 580, 1, 649, 581, 581, 1, 652, 582, 590, 2, 583,
           880, 882, 2, 881, 886, 886, 1, 887, 895, 895, 1, 1011, 902, 902, 1,
           940, 904, 906, 1, 941, 908, 908, 1, 972, 910, 911, 1, 973, 913,
           929, 1, 945, 931, 939, 1, 963, 975, 975, 1, 983, 984, 1006, 2, 985,
           1012, 1012, 1, 952, 1015, 1015, 1, 1016, 1017, 1017, 1, 1010, 1018,
           1018, 1, 1019, 1021, 1023, 1, 891, 1024, 1039, 1, 1104, 1040, 1071,
           1, 1072, 1120, 1152, 2, 1121, 1162, 1214, 2, 1163, 1216, 1216, 1,
           1231, 1217, 1229, 2, 1218, 1232, 1326, 2, 1233, 1329, 1366, 1,
           1377, 4256, 4293, 1, 11520, 4295, 4295, 1, 11559, 4301, 4301, 1,
           11565, 5024, 5103, 1, 43888, 5104, 5109, 1, 5112, 7305, 7305, 1,
           7306, 7312, 7354, 1, 4304, 7357, 7359, 1, 4349, 7680, 7828, 2,
           7681, 7838, 7838, 1, 223, 7840, 7934, 2, 7841, 7944, 7951, 1, 7936,
           7960, 7965, 1, 7952, 7976, 7983, 1, 7968, 7992, 7999, 1, 7984,
           8008, 8013, 1, 8000, 8025, 8031, 2, 8017, 8040, 8047, 1, 8032,
           8072, 8079, 1, 8064, 8088, 8095, 1, 8080, 8104, 8111, 1, 8096,
           8120, 8121, 1, 8112, 8122, 8123, 1, 8048, 8124, 8124, 1, 8115,
           8136, 8139, 1, 8050, 8140, 8140, 1, 8131, 8152, 8153, 1, 8144,
           8154, 8155, 1, 8054, 8168, 8169, 1, 8160, 8170, 8171, 1, 8058,
           8172, 8172, 1, 8165, 8184, 8185, 1, 8056, 8186, 8187, 1, 8060,
           8188, 8188, 1, 8179, 8486, 8486, 1, 969, 8490, 8490, 1, 107, 8491,
           8491, 1, 229, 8498, 8498, 1, 8526, 8544, 8559, 1, 8560, 8579, 8579,
           1, 8580, 9398, 9423, 1, 9424, 11264, 11311, 1, 11312, 11360, 11360,
           1, 11361, 11362, 11362, 1, 619, 11363, 11363, 1, 7549, 11364,
           11364, 1, 637, 11367, 11371, 2, 11368, 11373, 11373, 1, 593, 11374,
           11374, 1, 625, 11375, 11375, 1, 592, 11376, 11376, 1, 594, 11378,
           11378, 1, 11379, 11381, 11381, 1, 11382, 11390, 11391, 1, 575,
           11392, 11490, 2, 11393, 11499, 11501, 2, 11500, 11506, 11506, 1,
           11507, 42560, 42604, 2, 42561, 42624, 42650, 2, 42625, 42786,
           42798, 2, 42787, 42802, 42862, 2, 42803, 42873, 42875, 2, 42874,
           42877, 42877, 1, 7545, 42878, 42886, 2, 42879, 42891, 42891, 1,
           42892, 42893, 42893, 1, 613, 42896, 42898, 2, 42897, 42902, 42920,
           2, 42903, 42922, 42922, 1, 614, 42923, 42923, 1, 604, 42924, 42924,
           1, 609, 42925, 42925, 1, 620, 42926, 42926, 1, 618, 42928, 42928,
           1, 670, 42929, 42929, 1, 647, 42930, 42930, 1, 669, 42931, 42931,
           1, 43859, 42932, 42946, 2, 42933, 42948, 42948, 1, 42900, 42949,
           42949, 1, 642, 42950, 42950, 1, 7566, 42951, 42953, 2, 42952,
           42955, 42955, 1, 612, 42956, 42970, 2, 42957, 42972, 42972, 1, 411,
           42997, 42997, 1, 42998, 65313, 65338, 1, 65345, 66560, 66599, 1,
           66600, 66736, 66771, 1, 66776, 66928, 66938, 1, 66967, 66940,
           66954, 1, 66979, 66956, 66962, 1, 66995, 66964, 66965, 1, 67003,
           68736, 68786, 1, 68800, 68944, 68965, 1, 68976, 71840, 71871, 1,
           71872, 93760, 93791, 1, 93792, 93856, 93880, 1, 93883, 125184,
           125217, 1, 125218>>, 4)

\* the code units whose upper case is one other code unit, a unit of 128 or
\* more never moving below 128: first, last, step, image of each range
UpperRanges ==
  Ranges(<<97, 122, 1, 65, 181, 181, 1, 924, 224, 246, 1, 192, 248, 254, 1,
           216, 255, 255, 1, 376, 257, 303, 2, 256, 307, 311, 2, 306, 314,
           328, 2, 313, 331, 375, 2, 330, 378, 382, 2, 377, 384, 384, 1, 579,
           387, 389, 2, 386, 392, 392, 1, 391, 396, 396, 1, 395, 402, 402, 1,
           401, 405, 405, 1, 502, 409, 409, 1, 408, 410, 410, 1, 573, 411,
           411, 1, 42972, 414, 414, 1, 544, 417, 421, 2, 416, 424, 424, 1,
           423, 429, 429, 1, 428, 432, 432, 1, 431, 436, 438, 2, 435, 441,
           441, 1, 440, 445, 445, 1, 444, 447, 447, 1, 503, 453, 453, 1, 452,
           454, 454, 1, 452, 456, 456, 1, 455, 457, 457, 1, 455, 459, 459, 1,
           458, 460, 460, 1, 458, 462, 476, 2, 461, 477, 477, 1, 398, 479,
           495, 2, 478, 498, 498, 1, 497, 499, 499, 1, 497, 501, 501, 1, 500,
           505, 543, 2, 504, 547, 563, 2, 546, 572, 572, 1, 571, 575, 576, 1,
           11390, 578, 578, 1, 577, 583, 591, 2, 582, 592, 592, 1, 11375,
           593, 593, 1, 11373, 594, 594, 1, 11376, 595, 595, 1, 385, 596,
           596, 1, 390, 598, 599, 1, 393, 601, 601, 1, 399, 603, 603, 1, 400,
           604, 604, 1, 42923, 608, 608, 1, 403, 609, 609, 1, 42924, 611,
           611, 1, 404, 612, 612, 1, 42955, 613, 613, 1, 42893, 614, 614, 1,
           42922, 616, 616, 1, 407, 617, 617, 1, 406, 618, 618, 1, 42926,
           619, 619, 1, 11362, 620, 620, 1, 42925, 623, 623, 1, 412, 625,
           625, 1, 11374, 626, 626, 1, 413, 629, 629, 1, 415, 637, 637, 1,
           11364, 640, 640, 1, 422, 642, 642, 1, 42949, 643, 643, 1, 425,
           647, 647, 1, 42929, 648, 648, 1, 430, 649, 649, 1, 580, 650, 651,
           1, 433, 652, 652, 1, 581, 658, 658, 1, 439, 669, 669, 1, 42930,
           670, 670, 1, 42928, 837, 837, 1, 921, 881, 883, 2, 880, 887, 887,
           1, 886, 891, 893, 1, 1021, 940, 940, 1, 902, 941, 943, 1, 904,
           945, 961, 1, 913, 962, 962, 1, 931, 963, 971, 1, 931, 972, 972, 1,
           908, 973, 974, 1, 910, 976, 976, 1, 914, 977, 977, 1, 920, 981,
           981, 1, 934, 982, 982, 1, 928, 983, 983, 1, 975, 985, 1007, 2,
           984, 1008, 1008, 1, 922, 1009, 1009, 1, 929, 1010, 1010, 1, 1017,
           1011, 1011, 1, 895, 1013, 1013, 1, 917, 1016, 1016, 1, 1015, 1019,
           1019, 1, 1018, 1072, 1103, 1, 1040, 1104, 1119, 1, 1024, 1121,
           1153, 2, 1120, 1163, 1215, 2, 1162, 1218, 1230, 2, 1217, 1231,
           1231, 1, 1216, 1233, 1327, 2, 1232, 1377, 1414, 1, 1329, 4304,
           4346, 1, 7312, 4349, 4351, 1, 7357, 5112, 5117, 1, 5104, 7296,
           7296, 1, 1042, 7297, 7297, 1, 1044, 7298, 7298, 1, 1054, 7299,
           7300, 1, 1057, 7301, 7301, 1, 1058, 7302, 7302, 1, 1066, 7303,
           7303, 1, 1122, 7304, 7304, 1, 42570, 7306, 7306, 1, 7305, 7545,
           7545, 1, 42877, 7549, 7549, 1, 11363, 7566, 7566, 1, 42950, 7681,
           7829, 2, 7680, 7835, 7835, 1, 7776, 7841, 7935, 2, 7840, 7936,
           7943, 1, 7944, 7952, 7957, 1, 7960, 7968, 7975, 1, 7976, 7984,
           7991, 1, 7992, 8000, 8005, 1, 8008, 8017, 8023, 2, 8025, 8032,
           8039, 1, 8040, 8048, 8049, 1, 8122, 8050, 8053, 1, 8136, 8054,
           8055, 1, 8154, 8056, 8057, 1, 8184, 8058, 8059, 1, 8170, 8060,
           8061, 1, 8186, 8112, 8113, 1, 8120, 8126, 8126, 1, 921, 8144,
           8145, 1, 8152, 8160, 8161, 1, 8168, 8165, 8165, 1, 8172, 8526,
           8526, 1, 8498, 8560, 8575, 1, 8544, 8580, 8580, 1, 8579, 9424,
           9449, 1, 9398, 11312, 11359, 1, 11264, 11361, 11361, 1, 11360,
           11365, 11365, 1, 570, 11366, 11366, 1, 574, 11368, 11372, 2,
           11367, 11379, 11379, 1, 11378, 11382, 11382, 1, 11381, 11393,
           11491, 2, 11392, 11500, 11502, 2, 11499, 11507, 11507, 1, 11506,
           11520, 11557, 1, 4256, 11559, 11559, 1, 4295, 11565, 11565, 1,
           4301, 42561, 42605, 2, 42560, 42625, 42651, 2, 42624, 42787,
           42799, 2, 42786, 42803, 42863, 2, 42802, 42874, 42876, 2, 42873,
           42879, 42887, 2, 42878, 42892, 42892, 1, 42891, 42897, 42899, 2,
           42896, 42900, 42900, 1, 42948, 42903, 42921, 2, 42902, 42933,
           42947, 2, 42932, 42952, 42954, 2, 42951, 42957, 42971, 2, 42956,
           42998, 42998, 1, 42997, 43859, 43859, 1, 42931, 43888, 43967, 1,
           5024, 65345, 65370, 1, 65313>>, 4)

\* the cased letters that are not case-ignorable: first, last, step of each
\* range
CasedRanges ==
  Ranges(<<65, 90, 1, 97, 122, 1, 170, 170, 1, 181, 181, 1, 186, 186, 1, 192,
           214, 1, 216, 246, 1, 248, 442, 1, 444, 447, 1, 452, 659, 1, 662,
           687, 1, 880, 883, 1, 886, 887, 1, 891, 893, 1, 895, 895, 1, 902,
           904, 2, 905, 906, 1, 908, 910, 2, 911, 929, 1, 931, 1013, 1, 1015,
           1153, 1, 1162, 1327, 1, 1329, 1366, 1, 1376, 1416, 1, 4256, 4293,
           1, 4295, 4295, 1, 4301, 4301, 1, 4304, 4346, 1, 4349, 4351, 1,
           5024, 5109, 1, 5112, 5117, 1, 7296, 7306, 1, 7312, 7354, 1, 7357,
           7359, 1, 7424, 7467, 1, 7531, 7543, 1, 7545, 7578, 1, 7680, 7957,
           1, 7960, 7965, 1, 7968, 8005, 1, 8008, 8013, 1, 8016, 8023, 1,
           8025, 8031, 2, 8032, 8061, 1, 8064, 8116, 1, 8118, 8124, 1, 8126,
           8126, 1, 8130, 8132, 1, 8134, 8140, 1, 8144, 8147, 1, 8150, 8155,
           1, 8160, 8172, 1, 8178, 8180, 1, 8182, 8188, 1, 8450, 8450, 1,
           8455, 8455, 1, 8458, 8467, 1, 8469, 8469, 1, 8473, 8477, 1, 8484,
           8490, 2, 8491, 8493, 1, 8495, 8500, 1, 8505, 8505, 1, 8508, 8511,
           1, 8517, 8521, 1, 8526, 8526, 1, 8544, 8575, 1, 8579, 8580, 1,
           9398, 9449, 1, 11264, 11387, 1, 11390, 11492, 1, 11499, 11502, 1,
           11506, 11507, 1, 11520, 11557, 1, 11559, 11559, 1, 11565, 11565, 1,
           42560, 42605, 1, 42624, 42651, 1, 42786, 42863, 1, 42865, 42887, 1,
           42891, 42894, 1, 42896, 42972, 1, 42997, 42998, 1, 43002, 43002, 1,
           43824, 43866, 1, 43872, 43880, 1, 43888, 43967, 1, 64256, 64262, 1,
           64275, 64279, 1, 65313, 65338, 1, 65345, 65370, 1, 66560, 66639, 1,
           66736, 66771, 1, 66776, 66811, 1, 66928, 66938, 1, 66940, 66954, 1,
           66956, 66962, 1, 66964, 66965, 1, 66967, 66977, 1, 66979, 66993, 1,
           66995, 67001, 1, 67003, 67004, 1, 68736, 68786, 1, 68800, 68850, 1,
           68944, 68965, 1, 68976, 68997, 1, 71840, 71903, 1, 93760, 93823, 1,
           93856, 93880, 1, 93883, 93907, 1, 119808, 119892, 1, 119894,
           119964, 1, 119966, 119967, 1, 119970, 119970, 1, 119973, 119974, 1,
           119977, 119980, 1, 119982, 119993, 1, 119995, 119997, 2, 119998,
           120003, 1, 120005, 120069, 1, 120071, 120074, 1, 120077, 120084, 1,
           120086, 120092, 1, 120094, 120121, 1, 120123, 120126, 1, 120128,
           120132, 1, 120134, 120134, 1, 120138, 120144, 1, 120146, 120485, 1,
           120488, 120512, 1, 120514, 120538, 1, 120540, 120570, 1, 120572,
           120596, 1, 120598, 120628, 1, 120630, 120654, 1, 120656, 120686, 1,
           120688, 120712, 1, 120714, 120744, 1, 120746, 120770, 1, 120772,
           120779, 1, 122624, 122633, 1, 122635, 122654, 1, 122661, 122666, 1,
           125184, 125251, 1, 127280, 127305, 1, 127312, 127337, 1, 127344,
           127369, 1>>, 3)

\* the case-ignorable code points: first, last, step of each range
CaseIgnorableRanges ==
  Ranges(<<39, 39, 1, 46, 46, 1, 58, 58, 1, 94, 96, 2, 168, 168, 1, 173, 175,
           2, 180, 180, 1, 183, 184, 1, 688, 879, 1, 884, 885, 1, 890, 890, 1,
           900, 901, 1, 903, 903, 1, 1155, 1161, 1, 1369, 1369, 1, 1375, 1375,
           1, 1425, 1469, 1, 1471, 1473, 2, 1474, 1476, 2, 1477, 1479, 2,
           1524, 1524, 1, 1536, 1541, 1, 1552, 1562, 1, 1564, 1564, 1, 1600,
           1600, 1, 1611, 1631, 1, 1648, 1648, 1, 1750, 1757, 1, 1759, 1768,
           1, 1770, 1773, 1, 1807, 1809, 2, 1840, 1866, 1, 1958, 1968, 1,
           2027, 2037, 1, 2042, 2042, 1, 2045, 2045, 1, 2070, 2093, 1, 2137,
           2139, 1, 2184, 2184, 1, 2192, 2193, 1, 2199, 2207, 1, 2249, 2306,
           1, 2362, 2364, 2, 2369, 2376, 1, 2381, 2381, 1, 2385, 2391, 1,
           2402, 2403, 1, 2417, 2417, 1, 2433, 2433, 1, 2492, 2492, 1, 2497,
           2500, 1, 2509, 2509, 1, 2530, 2531, 1, 2558, 2558, 1, 2561, 2562,
           1, 2620, 2620, 1, 2625, 2626, 1, 2631, 2632, 1, 2635, 2637, 1,
           2641, 2641, 1, 2672, 2673, 1, 2677, 2677, 1, 2689, 2690, 1, 2748,
           2748, 1, 2753, 2757, 1, 2759, 2760, 1, 2765, 2765, 1, 2786, 2787,
           1, 2810, 2815, 1, 2817, 2817, 1, 2876, 2876, 1, 2879, 2881, 2,
           2882, 2884, 1, 2893, 2893, 1, 2901, 2902, 1, 2914, 2915, 1, 2946,
           2946, 1, 3008, 3008, 1, 3021, 3021, 1, 3072, 3072, 1, 3076, 3076,
           1, 3132, 3134, 2, 3135, 3136, 1, 3142, 3144, 1, 3146, 3149, 1,
           3157, 3158, 1, 3170, 3171, 1, 3201, 3201, 1, 3260, 3260, 1, 3263,
           3263, 1, 3270, 3270, 1, 3276, 3277, 1, 3298, 3299, 1, 3328, 3329,
           1, 3387, 3388, 1, 3393, 3396, 1, 3405, 3405, 1, 3426, 3427, 1,
           3457, 3457, 1, 3530, 3530, 1, 3538, 3540, 1, 3542, 3542, 1, 3633,
           3633, 1, 3636, 3642, 1, 3654, 3662, 1, 3761, 3761, 1, 3764, 3772,
           1, 3782, 3784, 2, 3785, 3790, 1, 3864, 3865, 1, 3893, 3897, 2,
           3953, 3966, 1, 3968, 3972, 1, 3974, 3975, 1, 3981, 3991, 1, 3993,
           4028, 1, 4038, 4038, 1, 4141, 4144, 1, 4146, 4151, 1, 4153, 4154,
           1, 4157, 4158, 1, 4184, 4185, 1, 4190, 4192, 1, 4209, 4212, 1,
           4226, 4226, 1, 4229, 4230, 1, 4237, 4237, 1, 4253, 4253, 1, 4348,
           4348, 1, 4957, 4959, 1, 5906, 5908, 1, 5938, 5939, 1, 5970, 5971,
           1, 6002, 6003, 1, 6068, 6069, 1, 6071, 6077, 1, 6086, 6086, 1,
           6089, 6099, 1, 6103, 6103, 1, 6109, 6109, 1, 6155, 6159, 1, 6211,
           6211, 1, 6277, 6278, 1, 6313, 6313, 1, 6432, 6434, 1, 6439, 6440,
           1, 6450, 6450, 1, 6457, 6459, 1, 6679, 6680, 1, 6683, 6683, 1,
           6742, 6744, 2, 6745, 6750, 1, 6752, 6754, 2, 6757, 6764, 1, 6771,
           6780, 1, 6783, 6783, 1, 6823, 6823, 1, 6832, 6877, 1, 6880, 6891,
           1, 6912, 6915, 1, 6964, 6966, 2, 6967, 6970, 1, 6972, 6972, 1,
           6978, 6978, 1, 7019, 7027, 1, 7040, 7041, 1, 7074, 7077, 1, 7080,
           7081, 1, 7083, 7085, 1, 7142, 7144, 2, 7145, 7145, 1, 7149, 7151,
           2, 7152, 7153, 1, 7212, 7219, 1, 7222, 7223, 1, 7288, 7293, 1,
           7376, 7378, 1, 7380, 7392, 1, 7394, 7400, 1, 7405, 7405, 1, 7412,
           7412, 1, 7416, 7417, 1, 7468, 7530, 1, 7544, 7544, 1, 7579, 7679,
           1, 8125, 8127, 2, 8128, 8129, 1, 8141, 8143, 1, 8157, 8159, 1,
           8173, 8175, 1, 8189, 8190, 1, 8203, 8207, 1, 8216, 8217, 1, 8228,
           8228, 1, 8231, 8231, 1, 8234, 8238, 1, 8288, 8292, 1, 8294, 8303,
           1, 8305, 8305, 1, 8319, 8319, 1, 8336, 8348, 1, 8400, 8432, 1,
           11388, 11389, 1, 11503, 11505, 1, 11631, 11631, 1, 11647, 11647, 1,
           11744, 11775, 1, 11823, 11823, 1, 12293, 12293, 1, 12330, 12333, 1,
           12337, 12341, 1, 12347, 12347, 1, 12441, 12446, 1, 12540, 12542, 1,
           40981, 40981, 1, 42232, 42237, 1, 42508, 42508, 1, 42607, 42610, 1,
           42612, 42621, 1, 42623, 42623, 1, 42652, 42655, 1, 42736, 42737, 1,
           42752, 42785, 1, 42864, 42864, 1, 42888, 42890, 1, 42993, 42996, 1,
           43000, 43001, 1, 43010, 43010, 1, 43014, 43014, 1, 43019, 43019, 1,
           43045, 43046, 1, 43052, 43052, 1, 43204, 43205, 1, 43232, 43249, 1,
           43263, 43263, 1, 43302, 43309, 1, 43335, 43345, 1, 43392, 43394, 1,
           43443, 43443, 1, 43446, 43449, 1, 43452, 43453, 1, 43471, 43471, 1,
           43493, 43494, 1, 43561, 43566, 1, 43569, 43570, 1, 43573, 43574, 1,
           43587, 43587, 1, 43596, 43596, 1, 43632, 43632, 1, 43644, 43644, 1,
           43696, 43698, 2, 43699, 43700, 1, 43703, 43704, 1, 43710, 43711, 1,
           43713, 43713, 1, 43741, 43741, 1, 43756, 43757, 1, 43763, 43764, 1,
           43766, 43766, 1, 43867, 43871, 1, 43881, 43883, 1, 44005, 44005, 1,
           44008, 44008, 1, 44013, 44013, 1, 64286, 64286, 1, 64434, 64450, 1,
           65024, 65039, 1, 65043, 65043, 1, 65056, 65071, 1, 65106, 65106, 1,
           65109, 65109, 1, 65279, 65279, 1, 65287, 65287, 1, 65294, 65294, 1,
           65306, 65306, 1, 65342, 65344, 2, 65392, 65392, 1, 65438, 65439, 1,
           65507, 65507, 1, 65529, 65531, 1, 66045, 66045, 1, 66272, 66272, 1,
           66422, 66426, 1, 67456, 67461, 1, 67463, 67504, 1, 67506, 67514, 1,
           68097, 68099, 1, 68101, 68102, 1, 68108, 68111, 1, 68152, 68154, 1,
           68159, 68159, 1, 68325, 68326, 1, 68900, 68903, 1, 68942, 68942, 1,
           68969, 68973, 1, 68975, 68975, 1, 69291, 69292, 1, 69317, 69317, 1,
           69370, 69375, 1, 69446, 69456, 1, 69506, 69509, 1, 69633, 69633, 1,
           69688, 69702, 1, 69744, 69744, 1, 69747, 69748, 1, 69759, 69761, 1,
           69811, 69814, 1, 69817, 69818, 1, 69821, 69821, 1, 69826, 69826, 1,
           69837, 69837, 1, 69888, 69890, 1, 69927, 69931, 1, 69933, 69940, 1,
           70003, 70003, 1, 70016, 70017, 1, 70070, 70078, 1, 70089, 70092, 1,
           70095, 70095, 1, 70191, 70193, 1, 70196, 70198, 2, 70199, 70199, 1,
           70206, 70206, 1, 70209, 70209, 1, 70367, 70367, 1, 70371, 70378, 1,
           70400, 70401, 1, 70459, 70460, 1, 70464, 70464, 1, 70502, 70508, 1,
           70512, 70516, 1, 70587, 70592, 1, 70606, 70610, 2, 70625, 70626, 1,
           70712, 70719, 1, 70722, 70724, 1, 70726, 70726, 1, 70750, 70750, 1,
           70835, 70840, 1, 70842, 70842, 1, 70847, 70848, 1, 70850, 70851, 1,
           71090, 71093, 1, 71100, 71101, 1, 71103, 71104, 1, 71132, 71133, 1,
           71219, 71226, 1, 71229, 71231, 2, 71232, 71232, 1, 71339, 71341, 2,
           71344, 71349, 1, 71351, 71351, 1, 71453, 71455, 2, 71458, 71461, 1,
           71463, 71467, 1, 71727, 71735, 1, 71737, 71738, 1, 71995, 71996, 1,
           71998, 71998, 1, 72003, 72003, 1, 72148, 72151, 1, 72154, 72155, 1,
           72160, 72160, 1, 72193, 72202, 1, 72243, 72248, 1, 72251, 72254, 1,
           72263, 72263, 1, 72273, 72278, 1, 72281, 72283, 1, 72330, 72342, 1,
           72344, 72345, 1, 72544, 72546, 2, 72547, 72548, 1, 72550, 72550, 1,
           72752, 72758, 1, 72760, 72765, 1, 72767, 72767, 1, 72850, 72871, 1,
           72874, 72880, 1, 72882, 72883, 1, 72885, 72886, 1, 73009, 73014, 1,
           73018, 73020, 2, 73021, 73023, 2, 73024, 73029, 1, 73031, 73031, 1,
           73104, 73105, 1, 73109, 73111, 2, 73177, 73177, 1, 73459, 73460, 1,
           73472, 73473, 1, 73526, 73530, 1, 73536, 73538, 2, 73562, 73562, 1,
           78896, 78912, 1, 78919, 78933, 1, 90398, 90409, 1, 90413, 90415, 1,
           92912, 92916, 1, 92976, 92982, 1, 92992, 92995, 1, 93504, 93506, 1,
           93547, 93548, 1, 94031, 94031, 1, 94095, 94111, 1, 94176, 94177, 1,
           94179, 94180, 1, 94194, 94195, 1, 110576, 110579, 1, 110581,
           110587, 1, 110589, 110590, 1, 113821, 113822, 1, 113824, 113827, 1,
           118528, 118573, 1, 118576, 118598, 1, 119143, 119145, 1, 119155,
           119170, 1, 119173, 119179, 1, 119210, 119213, 1, 119362, 119364, 1,
           121344, 121398, 1, 121403, 121452, 1, 121461, 121461, 1, 121476,
           121476, 1, 121499, 121503, 1, 121505, 121519, 1, 122880, 122886, 1,
           122888, 122904, 1, 122907, 122913, 1, 122915, 122916, 1, 122918,
           122922, 1, 122928, 122989, 1, 123023, 123023, 1, 123184, 123197, 1,
           123566, 123566, 1, 123628, 123631, 1, 124139, 124143, 1, 124398,
           124399, 1, 124643, 124643, 1, 124646, 124646, 1, 124654, 124655, 1,
           124661, 124661, 1, 124671, 124671, 1, 125136, 125142, 1, 125252,
           125259, 1, 127995, 127999, 1, 917505, 917505, 1, 917536, 917631, 1,
           917760, 917999, 1>>, 3)

InRange(c, r) == c >= r[1] /\ c <= r[2] /\ (c - r[1]) % r[3] = 0

\* c moved as the range it lies in moves, c itself if it lies in none
Mapped(c, ranges) ==
  LET hits == {r \in ranges : InRange(c, r)}
  IN  IF hits = {} THEN c
      ELSE LET r == CHOOSE h \in hits : TRUE IN c - r[1] + r[4]

\* the lower case of one code point away from any context: the code points
\* toLowerCase puts in its place
ToLowerChar(c) ==
  IF c < 128 THEN <<IF c \in 65..90 THEN c + 32 ELSE c>>
  ELSE IF c = 304 THEN <<105, 775>>
  ELSE <<Mapped(c, LowerRanges)>>

\* Canonicalize of a case-insensitive RegExp (i flag, no u flag): the upper
\* case of the code unit if that is one code unit, and not a unit below 128
\* for one of 128 or more
Canon(c) ==
  IF c < 128 THEN (IF c \in 97..122 THEN c - 32 ELSE c)
  ELSE Mapped(c, UpperRanges)

(***************************************************************************)
(* Strings                                                                 *)
(***************************************************************************)
\* String.prototype.slice(from, to); a negative index counts from the end
Slice(s, from, to) ==
  LET len == Len(s)
      f == IF from < 0 THEN Max(len + from, 0) ELSE Min(from, len)
      t == IF to < 0 THEN Max(len + to, 0) ELSE Min(to, len)
  IN  IF f >= t THEN << >> ELSE SubSeq(s, f + 1, t)

\* whether t occurs in s at 0-based offset i
OccursAt(s, t, i) ==
  /\ i >= 0
  /\ i + Len(t) <= Len(s)
  /\ \A k \in 1..Len(t) : s[i + k] = t[k]

\* String.prototype.indexOf: the first offset of t in s, or -1
IndexOf(s, t) ==
  LET hits == {i \in 0..(Len(s) - Len(t)) : OccursAt(s, t, i)}
  IN  IF hits = {} THEN 0 - 1
      ELSE CHOOSE i \in hits : \A j \in hits : i <= j

\* the concatenation of seqs[lo..hi]
RECURSIVE FlattenRange(_, _, _)
FlattenRange(seqs, lo, hi) ==
  IF lo > hi THEN << >>
  ELSE IF lo = hi THEN seqs[lo]
  ELSE FlattenRange(seqs, lo, (lo + hi) \div 2)
         \o FlattenRange(seqs, (lo + hi) \div 2 + 1, hi)

\* the concatenation of the sequences of seqs, each computed once
Flatten(seqs) ==
  LET all == seqs \o << >>
  IN  FlattenRange(all, 1, Len(all))

\* String.prototype.toLowerCase.  The string is read as code points, a high
\* surrogate with the low one after it being one code point; a capital sigma
\* becomes the final sigma when a cased letter comes before it and none after
\* it, case-ignorable code points between them not counting; every other
\* code point becomes its lower case, written back as code units
ToLower(s) ==
  IF \A i \in 1..Len(s) : s[i] < 128
  THEN [i \in 1..Len(s) |-> IF s[i] \in 65..90 THEN s[i] + 32 ELSE s[i]]
  ELSE
  LET n == Len(s)
      IsHigh(c) == c \in 55296..56319
      IsLow(c) == c \in 56320..57343
      trail(i) == i > 1 /\ IsLow(s[i]) /\ IsHigh(s[i - 1])
      lead(i) == i < n /\ IsHigh(s[i]) /\ IsLow(s[i + 1])
      point(i) == IF lead(i)
                  THEN 65536 + (s[i] - 55296) * 1024 + (s[i + 1] - 56320)
                  ELSE s[i]
      starts == {i \in 1..n : ~trail(i)}
      cased(i) == (\E r \in CasedRanges : InRange(point(i), r))
      skipped(lo, hi) ==
        \A k \in starts : lo < k /\ k < hi => (\E r \in CaseIgnorableRanges : InRange(point(k), r))
      final(i) ==
        /\ \E j \in starts : j < i /\ cased(j) /\ skipped(j, i)
        /\ ~\E j \in starts : j > i /\ cased(j) /\ skipped(i, j)
      units(p) == IF p < 65536 THEN <<p>>
                  ELSE <<55296 + (p - 65536) \div 1024, 56320 + ((p - 65536) % 1024)>>
      lowered(i) ==
        IF trail(i) THEN << >>
        ELSE IF s[i] = 931 THEN <<IF final(i) THEN 962 ELSE 963>>
        ELSE LET to == ToLowerChar(point(i))
             IN  Flatten([k \in 1..Len(to) |-> units(to[k])])
  IN  Flatten([i \in 1..n |-> lowered(i)])

\* String.prototype.trim
Trim(s) ==
  LET solid == {i \in 1..Len(s) : ~(IsSpace(s[i]) \/ IsLineTerminator(s[i]))}
  IN  IF solid = {} THEN << >>
      ELSE SubSeq(s, CHOOSE i \in solid : \A j \in solid : i <= j,
                     CHOOSE i \in solid : \A j \in solid : i >= j)

IsCodeUnit(c) == c >= 0

\* s.replace(/\s+/g, ' '): every maximal run of whitespace becomes one space
CollapseWhitespace(s) ==
  SelectSeq([i \in 1..Len(s) |->
               IF ~IsSpace(s[i]) THEN s[i]
               ELSE IF i < Len(s) /\ IsSpace(s[i + 1]) THEN 0 - 1 ELSE 32],
            IsCodeUnit)

\* the pieces of s between the separators, the k-th of which occupies
\* s[starts[k]..ends[k]]
Pieces(s, starts, ends) ==
  \* the j-th smallest element of a set of integers
  LET Nth(S, j) == CHOOSE x \in S : Cardinality({y \in S : y <= x}) = j
  IN
  [j \in 1..(Cardinality(starts) + 1) |->
     SubSeq(s, IF j = 1 THEN 1 ELSE Nth(ends, j - 1) + 1,
               IF j = Cardinality(starts) + 1 THEN Len(s) ELSE Nth(starts, j) - 1)]

\* s.split(/\s+/): the pieces between maximal runs of whitespace; a leading or
\* trailing run leaves an empty piece, and the empty string splits into ['']
SplitWhitespace(s) ==
  LET white == {i \in 1..Len(s) : IsSpace(s[i])}
  IN  Pieces(s, {i \in white : i - 1 \notin white},
                {i \in white : i + 1 \notin white})

\* new Set(array)
SetOf(seq) == {seq[i] : i \in 1..Len(seq)}


\* array.filter(pred) is SelectSeq; array.join(sep)
Join(parts, sep) ==
  IF Len(parts) = 0 THEN << >> ELSE
  Flatten([i \in 1..(2 * Len(parts) - 1) |->
             IF i % 2 = 1 THEN parts[(i + 1) \div 2] ELSE sep])

\* s.split(ch) for a one-character separator
SplitOn(s, ch) ==
  LET at == {i \in 1..Len(s) : s[i] = ch}
  IN  Pieces(s, at, at)

(***************************************************************************)
(* HashUtil.sha256: h = 31*h + charCode wrapped to 32 bits, Math.abs, hex. *)
(* A 32-bit word is the pair <<high 16 bits, low 16 bits>>.                *)
(***************************************************************************)
Word16 == 65536

\* the loop over input[lo..hi], from hash value h; h is a pair of naturals,
\* so h[1] < 0 never holds: the test has h computed before the range is entered
RECURSIVE HashRange(_, _, _, _)
HashRange(input, lo, hi, h) ==
  LET HashStep(c) ==
        LET low == h[2] * 31 + c
            high == h[1] * 31 + (low \div Word16)
        IN  <<high % Word16, low % Word16>>
  IN
  IF lo > hi \/ h[1] < 0 THEN h
  ELSE IF lo = hi THEN HashStep(input[lo])
  ELSE LET mid == (lo + hi) \div 2
       IN  HashRange(input, mid + 1, hi, HashRange(input, lo, mid, h))

RECURSIVE StripZeros(_)
StripZeros(ds) ==
  IF Len(ds) > 1 /\ ds[1] = 48 THEN StripZeros(Tail(ds)) ELSE ds

\* Number.prototype.toString(16)
ToHex(h) ==
  LET HexDigit(v) == IF v < 10 THEN 48 + v ELSE 87 + v
  IN
  StripZeros(<<HexDigit(h[1] \div 4096), HexDigit((h[1] \div 256) % 16),
               HexDigit((h[1] \div 16) % 16), HexDigit(h[1] % 16),
               HexDigit(h[2] \div 4096), HexDigit((h[2] \div 256) % 16),
               HexDigit((h[2] \div 16) % 16), HexDigit(h[2] % 16)>>)

sha256(input) ==
  \* Math.abs of the signed 32-bit value, as an unsigned pair
  LET AbsWord(h) ==
        IF h[1] < Word16 \div 2 THEN h
        ELSE <<(Word16 - 1 - h[1] + (IF h[2] = 0 THEN 1 ELSE 0)) % Word16,
               (Word16 - h[2]) % Word16>>
  IN  ToHex(AbsWord(HashRange(input, 1, Len(input), <<0, 0>>)))

\* the word 3-grams of a list of words, each joined by a space
Trigrams(words) ==
  [i \in 1..Max(Len(words) - 2, 0) |->
     words[i] \o <<32>> \o words[i + 1] \o <<32>> \o words[i + 2]]

LongWord(w) == Len(w) > 2

(***************************************************************************)
(* PositionService: text helpers                                           *)
(***************************************************************************)
PS_KeepChar(c) == IsWordChar(c) \/ IsCJK(c)

PS_normalizeText(text) ==
  Trim(ToLower(SelectSeq(CollapseWhitespace(text), PS_KeepChar)))

\* intersection.size / union.size of the two token sets
Jaccard(words1, words2, emptyUnion) ==
  LET inter == words1 \cap words2
      union == words1 \cup words2
  IN  IF union = {} THEN emptyUnion
      ELSE Rat(Cardinality(inter), Cardinality(union))

\* a similarity of 0.7 for any two different texts
PS_calculateTextSimilarity_Lenient(text1, text2) ==
  IF text1 = text2 THEN One ELSE Decimal[70]

PS_calculateTextSimilarity(text1, text2) ==
  IF text1 = text2 THEN One
  ELSE LET normalized1 == PS_normalizeText(text1)
           normalized2 == PS_normalizeText(text2)
       IN  IF normalized1 = normalized2 THEN Decimal[95]
           ELSE Jaccard(SetOf(SplitWhitespace(normalized1)),
                        SetOf(SplitWhitespace(normalized2)), Zero)

\* the trigram list itself, not its digest
PS_generateTextFingerprint_Plain(selectedText, contextBefore, contextAfter) ==
  LET combined == contextBefore \o selectedText \o contextAfter
      words == SelectSeq(SplitWhitespace(combined), LongWord)
  IN  Join(Trigrams(words), <<124>>)

PS_generateTextFingerprint(selectedText, contextBefore, contextAfter) ==
  LET combined == contextBefore \o selectedText \o contextAfter
      words == SelectSeq(SplitWhitespace(combined), LongWord)
  IN  sha256(Join(Trigrams(words), <<124>>))

generateContextHash(contextBefore, selectedText, contextAfter) ==
  sha256(contextBefore \o selectedText \o contextAfter)

(***************************************************************************)
(* TextMatchingAlgorithm: text helpers                                     *)
(***************************************************************************)
TMA_normalizeText(text) ==
  LET TMA_KeepChar(c) == IsWordChar(c) \/ IsCJK(c) \/ IsSpace(c)
  IN  Trim(ToLower(SelectSeq(CollapseWhitespace(text), TMA_KeepChar)))

TMA_calculateTextSimilarity(text1, text2) ==
  IF text1 = text2 THEN One
  ELSE LET norm1 == TMA_normalizeText(text1)
           norm2 == TMA_normalizeText(text2)
       IN  IF norm1 = norm2 THEN Decimal[95]
           ELSE Jaccard(SetOf(SplitWhitespace(norm1)),
                        SetOf(SplitWhitespace(norm2)), Zero)

TMA_generateTextFingerprint(text) ==
  Join(Trigrams(SelectSeq(SplitWhitespace(ToLower(text)), LongWord)), <<124>>)

compareFingerprints(fp1, fp2) ==
  RLt(Decimal[30],
      Jaccard(SetOf(SplitOn(fp1, 124)), SetOf(SplitOn(fp2, 124)), Zero))

(***************************************************************************)
(* JavaScript regular expressions, as new RegExp(source, 'gi') compiles    *)
(* and runs them: the pattern grammar of ECMAScript with its extensions    *)
(* for web browsers (no u or v flag), and the backtracking matcher.  A     *)
(* pattern and a text are sequences of code units.  The engine is the one *)
(* of V8 11.3: it has no modifier groups (?i:...), and two groups of one   *)
(* name are a SyntaxError wherever they stand.                             *)
(***************************************************************************)
\* the code points of 128 or more with the property ID_Start (Unicode 17):
\* first, last of each range
IdStartRanges ==
  Ranges(<<170, 170, 181, 181, 186, 186, 192, 214, 216, 246, 248, 705, 710,
           721, 736, 740, 748, 748, 750, 750, 880, 884, 886, 887, 890, 893,
           895, 895, 902, 902, 904, 906, 908, 908, 910, 929, 931, 1013, 1015,
           1153, 1162, 1327, 1329, 1366, 1369, 1369, 1376, 1416, 1488, 1514,
           1519, 1522, 1568, 1610, 1646, 1647, 1649, 1747, 1749, 1749, 1765,
           1766, 1774, 1775, 1786, 1788, 1791, 1791, 1808, 1808, 1810, 1839,
           1869, 1957, 1969, 1969, 1994, 2026, 2036, 2037, 2042, 2042, 2048,
           2069, 2074, 2074, 2084, 2084, 2088, 2088, 2112, 2136, 2144, 2154,
           2160, 2183, 2185, 2191, 2208, 2249, 2308, 2361, 2365, 2365, 2384,
           2384, 2392, 2401, 2417, 2432, 2437, 2444, 2447, 2448, 2451, 2472,
           2474, 2480, 2482, 2482, 2486, 2489, 2493, 2493, 2510, 2510, 2524,
           2525, 2527, 2529, 2544, 2545, 2556, 2556, 2565, 2570, 2575, 2576,
           2579, 2600, 2602, 2608, 2610, 2611, 2613, 2614, 2616, 2617, 2649,
           2652, 2654, 2654, 2674, 2676, 2693, 2701, 2703, 2705, 2707, 2728,
           2730, 2736, 2738, 2739, 2741, 2745, 2749, 2749, 2768, 2768, 2784,
           2785, 2809, 2809, 2821, 2828, 2831, 2832, 2835, 2856, 2858, 2864,
           2866, 2867, 2869, 2873, 2877, 2877, 2908, 2909, 2911, 2913, 2929,
           2929, 2947, 2947, 2949, 2954, 2958, 2960, 2962, 2965, 2969, 2970,
           2972, 2972, 2974, 2975, 2979, 2980, 2984, 2986, 2990, 3001, 3024,
           3024, 3077, 3084, 3086, 3088, 3090, 3112, 3114, 3129, 3133, 3133,
           3160, 3162, 3164, 3165, 3168, 3169, 3200, 3200, 3205, 3212, 3214,
           3216, 3218, 3240, 3242, 3251, 3253, 3257, 3261, 3261, 3292, 3294,
           3296, 3297, 3313, 3314, 3332, 3340, 3342, 3344, 3346, 3386, 3389,
           3389, 3406, 3406, 3412, 3414, 3423, 3425, 3450, 3455, 3461, 3478,
           3482, 3505, 3507, 3515, 3517, 3517, 3520, 3526, 3585, 3632, 3634,
           3635, 3648, 3654, 3713, 3714, 3716, 3716, 3718, 3722, 3724, 3747,
           3749, 3749, 3751, 3760, 3762, 3763, 3773, 3773, 3776, 3780, 3782,
           3782, 3804, 3807, 3840, 3840, 3904, 3911, 3913, 3948, 3976, 3980,
           4096, 4138, 4159, 4159, 4176, 4181, 4186, 4189, 4193, 4193, 4197,
           4198, 4206, 4208, 4213, 4225, 4238, 4238, 4256, 4293, 4295, 4295,
           4301, 4301, 4304, 4346, 4348, 4680, 4682, 4685, 4688, 4694, 4696,
           4696, 4698, 4701, 4704, 4744, 4746, 4749, 4752, 4784, 4786, 4789,
           4792, 4798, 4800, 4800, 4802, 4805, 4808, 4822, 4824, 4880, 4882,
           4885, 4888, 4954, 4992, 5007, 5024, 5109, 5112, 5117, 5121, 5740,
           5743, 5759, 5761, 5786, 5792, 5866, 5870, 5880, 5888, 5905, 5919,
           5937, 5952, 5969, 5984, 5996, 5998, 6000, 6016, 6067, 6103, 6103,
           6108, 6108, 6176, 6264, 6272, 6312, 6314, 6314, 6320, 6389, 6400,
           6430, 6480, 6509, 6512, 6516, 6528, 6571, 6576, 6601, 6656, 6678,
           6688, 6740, 6823, 6823, 6917, 6963, 6981, 6988, 7043, 7072, 7086,
           7087, 7098, 7141, 7168, 7203, 7245, 7247, 7258, 7293, 7296, 7306,
           7312, 7354, 7357, 7359, 7401, 7404, 7406, 7411, 7413, 7414, 7418,
           7418, 7424, 7615, 7680, 7957, 7960, 7965, 7968, 8005, 8008, 8013,
           8016, 8023, 8025, 8025, 8027, 8027, 8029, 8029, 8031, 8061, 8064,
           8116, 8118, 8124, 8126, 8126, 8130, 8132, 8134, 8140, 8144, 8147,
           8150, 8155, 8160, 8172, 8178, 8180, 8182, 8188, 8305, 8305, 8319,
           8319, 8336, 8348, 8450, 8450, 8455, 8455, 8458, 8467, 8469, 8469,
           8472, 8477, 8484, 8484, 8486, 8486, 8488, 8488, 8490, 8505, 8508,
           8511, 8517, 8521, 8526, 8526, 8544, 8584, 11264, 11492, 11499,
           11502, 11506, 11507, 11520, 11557, 11559, 11559, 11565, 11565,
           11568, 11623, 11631, 11631, 11648, 11670, 11680, 11686, 11688,
           11694, 11696, 11702, 11704, 11710, 11712, 11718, 11720, 11726,
           11728, 11734, 11736, 11742, 12293, 12295, 12321, 12329, 12337,
           12341, 12344, 12348, 12353, 12438, 12443, 12447, 12449, 12538,
           12540, 12543, 12549, 12591, 12593, 12686, 12704, 12735, 12784,
           12799, 13312, 19903, 19968, 42124, 42192, 42237, 42240, 42508,
           42512, 42527, 42538, 42539, 42560, 42606, 42623, 42653, 42656,
           42735, 42775, 42783, 42786, 42888, 42891, 42972, 42993, 43009,
           43011, 43013, 43015, 43018, 43020, 43042, 43072, 43123, 43138,
           43187, 43250, 43255, 43259, 43259, 43261, 43262, 43274, 43301,
           43312, 43334, 43360, 43388, 43396, 43442, 43471, 43471, 43488,
           43492, 43494, 43503, 43514, 43518, 43520, 43560, 43584, 43586,
           43588, 43595, 43616, 43638, 43642, 43642, 43646, 43695, 43697,
           43697, 43701, 43702, 43705, 43709, 43712, 43712, 43714, 43714,
           43739, 43741, 43744, 43754, 43762, 43764, 43777, 43782, 43785,
           43790, 43793, 43798, 43808, 43814, 43816, 43822, 43824, 43866,
           43868, 43881, 43888, 44002, 44032, 55203, 55216, 55238, 55243,
           55291, 63744, 64109, 64112, 64217, 64256, 64262, 64275, 64279,
           64285, 64285, 64287, 64296, 64298, 64310, 64312, 64316, 64318,
           64318, 64320, 64321, 64323, 64324, 64326, 64433, 64467, 64829,
           64848, 64911, 64914, 64967, 65008, 65019, 65136, 65140, 65142,
           65276, 65313, 65338, 65345, 65370, 65382, 65470, 65474, 65479,
           65482, 65487, 65490, 65495, 65498, 65500, 65536, 65547, 65549,
           65574, 65576, 65594, 65596, 65597, 65599, 65613, 65616, 65629,
           65664, 65786, 65856, 65908, 66176, 66204, 66208, 66256, 66304,
           66335, 66349, 66378, 66384, 66421, 66432, 66461, 66464, 66499,
           66504, 66511, 66513, 66517, 66560, 66717, 66736, 66771, 66776,
           66811, 66816, 66855, 66864, 66915, 66928, 66938, 66940, 66954,
           66956, 66962, 66964, 66965, 66967, 66977, 66979, 66993, 66995,
           67001, 67003, 67004, 67008, 67059, 67072, 67382, 67392, 67413,
           67424, 67431, 67456, 67461, 67463, 67504, 67506, 67514, 67584,
           67589, 67592, 67592, 67594, 67637, 67639, 67640, 67644, 67644,
           67647, 67669, 67680, 67702, 67712, 67742, 67808, 67826, 67828,
           67829, 67840, 67861, 67872, 67897, 67904, 67929, 67968, 68023,
           68030, 68031, 68096, 68096, 68112, 68115, 68117, 68119, 68121,
           68149, 68192, 68220, 68224, 68252, 68288, 68295, 68297, 68324,
           68352, 68405, 68416, 68437, 68448, 68466, 68480, 68497, 68608,
           68680, 68736, 68786, 68800, 68850, 68864, 68899, 68938, 68965,
           68975, 68997, 69248, 69289, 69296, 69297, 69314, 69319, 69376,
           69404, 69415, 69415, 69424, 69445, 69488, 69505, 69552, 69572,
           69600, 69622, 69635, 69687, 69745, 69746, 69749, 69749, 69763,
           69807, 69840, 69864, 69891, 69926, 69956, 69956, 69959, 69959,
           69968, 70002, 70006, 70006, 70019, 70066, 70081, 70084, 70106,
           70106, 70108, 70108, 70144, 70161, 70163, 70187, 70207, 70208,
           70272, 70278, 70280, 70280, 70282, 70285, 70287, 70301, 70303,
           70312, 70320, 70366, 70405, 70412, 70415, 70416, 70419, 70440,
           70442, 70448, 70450, 70451, 70453, 70457, 70461, 70461, 70480,
           70480, 70493, 70497, 70528, 70537, 70539, 70539, 70542, 70542,
           70544, 70581, 70583, 70583, 70609, 70609, 70611, 70611, 70656,
           70708, 70727, 70730, 70751, 70753, 70784, 70831, 70852, 70853,
           70855, 70855, 71040, 71086, 71128, 71131, 71168, 71215, 71236,
           71236, 71296, 71338, 71352, 71352, 71424, 71450, 71488, 71494,
           71680, 71723, 71840, 71903, 71935, 71942, 71945, 71945, 71948,
           71955, 71957, 71958, 71960, 71983, 71999, 71999, 72001, 72001,
           72096, 72103, 72106, 72144, 72161, 72161, 72163, 72163, 72192,
           72192, 72203, 72242, 72250, 72250, 72272, 72272, 72284, 72329,
           72349, 72349, 72368, 72440, 72640, 72672, 72704, 72712, 72714,
           72750, 72768, 72768, 72818, 72847, 72960, 72966, 72968, 72969,
           72971, 73008, 73030, 73030, 73056, 73061, 73063, 73064, 73066,
           73097, 73112, 73112, 73136, 73179, 73440, 73458, 73474, 73474,
           73476, 73488, 73490, 73523, 73648, 73648, 73728, 74649, 74752,
           74862, 74880, 75075, 77712, 77808, 77824, 78895, 78913, 78918,
           78944, 82938, 82944, 83526, 90368, 90397, 92160, 92728, 92736,
           92766, 92784, 92862, 92880, 92909, 92928, 92975, 92992, 92995,
           93027, 93047, 93053, 93071, 93504, 93548, 93760, 93823, 93856,
           93880, 93883, 93907, 93952, 94026, 94032, 94032, 94099, 94111,
           94176, 94177, 94179, 94179, 94194, 94198, 94208, 101589, 101631,
           101662, 101760, 101874, 110576, 110579, 110581, 110587, 110589,
           110590, 110592, 110882, 110898, 110898, 110928, 110930, 110933,
           110933, 110948, 110951, 110960, 111355, 113664, 113770, 113776,
           113788, 113792, 113800, 113808, 113817, 119808, 119892, 119894,
           119964, 119966, 119967, 119970, 119970, 119973, 119974, 119977,
           119980, 119982, 119993, 119995, 119995, 119997, 120003, 120005,
           120069, 120071, 120074, 120077, 120084, 120086, 120092, 120094,
           120121, 120123, 120126, 120128, 120132, 120134, 120134, 120138,
           120144, 120146, 120485, 120488, 120512, 120514, 120538, 120540,
           120570, 120572, 120596, 120598, 120628, 120630, 120654, 120656,
           120686, 120688, 120712, 120714, 120744, 120746, 120770, 120772,
           120779, 122624, 122654, 122661, 122666, 122928, 122989, 123136,
           123180, 123191, 123197, 123214, 123214, 123536, 123565, 123584,
           123627, 124112, 124139, 124368, 124397, 124400, 124400, 124608,
           124638, 124640, 124642, 124644, 124645, 124647, 124653, 124656,
           124660, 124670, 124671, 124896, 124902, 124904, 124907, 124909,
           124910, 124912, 124926, 124928, 125124, 125184, 125251, 125259,
           125259, 126464, 126467, 126469, 126495, 126497, 126498, 126500,
           126500, 126503, 126503, 126505, 126514, 126516, 126519, 126521,
           126521, 126523, 126523, 126530, 126530, 126535, 126535, 126537,
           126537, 126539, 126539, 126541, 126543, 126545, 126546, 126548,
           126548, 126551, 126551, 126553, 126553, 126555, 126555, 126557,
           126557, 126559, 126559, 126561, 126562, 126564, 126564, 126567,
           126570, 126572, 126578, 126580, 126583, 126585, 126588, 126590,
           126590, 126592, 126601, 126603, 126619, 126625, 126627, 126629,
           126633, 126635, 126651, 131072, 173791, 173824, 178205, 178208,
           183981, 183984, 191456, 191472, 192093, 194560, 195101, 196608,
           201546, 201552, 210041>>, 2)

\* the code points of 128 or more with the property ID_Continue and without
\* ID_Start, and the two joiners U+200C and U+200D: first, last of each range
IdContinueRanges ==
  Ranges(<<183, 183, 768, 879, 903, 903, 1155, 1159, 1425, 1469, 1471, 1471,
           1473, 1474, 1476, 1477, 1479, 1479, 1552, 1562, 1611, 1641, 1648,
           1648, 1750, 1756, 1759, 1764, 1767, 1768, 1770, 1773, 1776, 1785,
           1809, 1809, 1840, 1866, 1958, 1968, 1984, 1993, 2027, 2035, 2045,
           2045, 2070, 2073, 2075, 2083, 2085, 2087, 2089, 2093, 2137, 2139,
           2199, 2207, 2250, 2273, 2275, 2307, 2362, 2364, 2366, 2383, 2385,
           2391, 2402, 2403, 2406, 2415, 2433, 2435, 2492, 2492, 2494, 2500,
           2503, 2504, 2507, 2509, 2519, 2519, 2530, 2531, 2534, 2543, 2558,
           2558, 2561, 2563, 2620, 2620, 2622, 2626, 2631, 2632, 2635, 2637,
           2641, 2641, 2662, 2673, 2677, 2677, 2689, 2691, 2748, 2748, 2750,
           2757, 2759, 2761, 2763, 2765, 2786, 2787, 2790, 2799, 2810, 2815,
           2817, 2819, 2876, 2876, 2878, 2884, 2887, 2888, 2891, 2893, 2901,
           2903, 2914, 2915, 2918, 2927, 2946, 2946, 3006, 3010, 3014, 3016,
           3018, 3021, 3031, 3031, 3046, 3055, 3072, 3076, 3132, 3132, 3134,
           3140, 3142, 3144, 3146, 3149, 3157, 3158, 3170, 3171, 3174, 3183,
           3201, 3203, 3260, 3260, 3262, 3268, 3270, 3272, 3274, 3277, 3285,
           3286, 3298, 3299, 3302, 3311, 3315, 3315, 3328, 3331, 3387, 3388,
           3390, 3396, 3398, 3400, 3402, 3405, 3415, 3415, 3426, 3427, 3430,
           3439, 3457, 3459, 3530, 3530, 3535, 3540, 3542, 3542, 3544, 3551,
           3558, 3567, 3570, 3571, 3633, 3633, 3636, 3642, 3655, 3662, 3664,
           3673, 3761, 3761, 3764, 3772, 3784, 3790, 3792, 3801, 3864, 3865,
           3872, 3881, 3893, 3893, 3895, 3895, 3897, 3897, 3902, 3903, 3953,
           3972, 3974, 3975, 3981, 3991, 3993, 4028, 4038, 4038, 4139, 4158,
           4160, 4169, 4182, 4185, 4190, 4192, 4194, 4196, 4199, 4205, 4209,
           4212, 4226, 4237, 4239, 4253, 4957, 4959, 4969, 4977, 5906, 5909,
           5938, 5940, 5970, 5971, 6002, 6003, 6068, 6099, 6109, 6109, 6112,
           6121, 6155, 6157, 6159, 6169, 6313, 6313, 6432, 6443, 6448, 6459,
           6470, 6479, 6608, 6618, 6679, 6683, 6741, 6750, 6752, 6780, 6783,
           6793, 6800, 6809, 6832, 6845, 6847, 6877, 6880, 6891, 6912, 6916,
           6964, 6980, 6992, 7001, 7019, 7027, 7040, 7042, 7073, 7085, 7088,
           7097, 7142, 7155, 7204, 7223, 7232, 7241, 7248, 7257, 7376, 7378,
           7380, 7400, 7405, 7405, 7412, 7412, 7415, 7417, 7616, 7679, 8204,
           8205, 8255, 8256, 8276, 8276, 8400, 8412, 8417, 8417, 8421, 8432,
           11503, 11505, 11647, 11647, 11744, 11775, 12330, 12335, 12441,
           12442, 12539, 12539, 42528, 42537, 42607, 42607, 42612, 42621,
           42654, 42655, 42736, 42737, 43010, 43010, 43014, 43014, 43019,
           43019, 43043, 43047, 43052, 43052, 43136, 43137, 43188, 43205,
           43216, 43225, 43232, 43249, 43263, 43273, 43302, 43309, 43335,
           43347, 43392, 43395, 43443, 43456, 43472, 43481, 43493, 43493,
           43504, 43513, 43561, 43574, 43587, 43587, 43596, 43597, 43600,
           43609, 43643, 43645, 43696, 43696, 43698, 43700, 43703, 43704,
           43710, 43711, 43713, 43713, 43755, 43759, 43765, 43766, 44003,
           44010, 44012, 44013, 44016, 44025, 64286, 64286, 65024, 65039,
           65056, 65071, 65075, 65076, 65101, 65103, 65296, 65305, 65343,
           65343, 65381, 65381, 66045, 66045, 66272, 66272, 66422, 66426,
           66720, 66729, 68097, 68099, 68101, 68102, 68108, 68111, 68152,
           68154, 68159, 68159, 68325, 68326, 68900, 68903, 68912, 68921,
           68928, 68937, 68969, 68973, 69291, 69292, 69370, 69375, 69446,
           69456, 69506, 69509, 69632, 69634, 69688, 69702, 69734, 69744,
           69747, 69748, 69759, 69762, 69808, 69818, 69826, 69826, 69872,
           69881, 69888, 69890, 69927, 69940, 69942, 69951, 69957, 69958,
           70003, 70003, 70016, 70018, 70067, 70080, 70089, 70092, 70094,
           70105, 70188, 70199, 70206, 70206, 70209, 70209, 70367, 70378,
           70384, 70393, 70400, 70403, 70459, 70460, 70462, 70468, 70471,
           70472, 70475, 70477, 70487, 70487, 70498, 70499, 70502, 70508,
           70512, 70516, 70584, 70592, 70594, 70594, 70597, 70597, 70599,
           70602, 70604, 70608, 70610, 70610, 70625, 70626, 70709, 70726,
           70736, 70745, 70750, 70750, 70832, 70851, 70864, 70873, 71087,
           71093, 71096, 71104, 71132, 71133, 71216, 71232, 71248, 71257,
           71339, 71351, 71360, 71369, 71376, 71395, 71453, 71467, 71472,
           71481, 71724, 71738, 71904, 71913, 71984, 71989, 71991, 71992,
           71995, 71998, 72000, 72000, 72002, 72003, 72016, 72025, 72145,
           72151, 72154, 72160, 72164, 72164, 72193, 72202, 72243, 72249,
           72251, 72254, 72263, 72263, 72273, 72283, 72330, 72345, 72544,
           72551, 72688, 72697, 72751, 72758, 72760, 72767, 72784, 72793,
           72850, 72871, 72873, 72886, 73009, 73014, 73018, 73018, 73020,
           73021, 73023, 73029, 73031, 73031, 73040, 73049, 73098, 73102,
           73104, 73105, 73107, 73111, 73120, 73129, 73184, 73193, 73459,
           73462, 73472, 73473, 73475, 73475, 73524, 73530, 73534, 73538,
           73552, 73562, 78912, 78912, 78919, 78933, 90398, 90425, 92768,
           92777, 92864, 92873, 92912, 92916, 92976, 92982, 93008, 93017,
           93552, 93561, 94031, 94031, 94033, 94087, 94095, 94098, 94180,
           94180, 94192, 94193, 113821, 113822, 118000, 118009, 118528,
           118573, 118576, 118598, 119141, 119145, 119149, 119154, 119163,
           119170, 119173, 119179, 119210, 119213, 119362, 119364, 120782,
           120831, 121344, 121398, 121403, 121452, 121461, 121461, 121476,
           121476, 121499, 121503, 121505, 121519, 122880, 122886, 122888,
           122904, 122907, 122913, 122915, 122916, 122918, 122922, 123023,
           123023, 123184, 123190, 123200, 123209, 123566, 123566, 123628,
           123641, 124140, 124153, 124398, 124399, 124401, 124410, 124643,
           124643, 124646, 124646, 124654, 124655, 124661, 124661, 125136,
           125142, 125252, 125258, 125264, 125273, 130032, 130041, 917760,
           917999>>, 2)

IsDigit(c) == c \in 48..57

Least(S) == CHOOSE x \in S : \A y \in S : x <= y

\* the code unit at src[i], -1 past the end
UnitAt(src, i) == IF i >= 1 /\ i <= Len(src) THEN src[i] ELSE 0 - 1

\* the decimal number at src[j..], as <<value, index after it>>; the value
\* is an int: a number past kMaxInt = 2147483647 is read as kMaxInt, and the
\* digits after it are skipped
RECURSIVE ReadNat(_, _, _)
ReadNat(src, j, v) ==
  IF j <= Len(src) /\ IsDigit(src[j])
  THEN ReadNat(src, j + 1,
               IF v > (2147483647 - (src[j] - 48)) \div 10 THEN 2147483647
               ELSE v * 10 + (src[j] - 48))
  ELSE <<v, j>>

\* whether src[i] follows an odd number of backslashes (is escaped)
Escaped(src, i) ==
  LET others == {j \in 1..(i - 1) : src[j] # 92}
      last == IF others = {} THEN 0
              ELSE CHOOSE j \in others : \A k \in others : j >= k
  IN  (i - 1 - last) % 2 = 1

\* the character classes of src from index from on, each as <<index of its
\* [, index of its ]>>; a class never closed ends past the end of src
RECURSIVE CharacterClasses(_, _)
CharacterClasses(src, from) ==
  LET opens == {i \in from..Len(src) : src[i] = 91 /\ ~Escaped(src, i)}
      open == Least(opens)
      closes == {j \in (open + 1)..Len(src) : src[j] = 93 /\ ~Escaped(src, j)}
  IN  IF opens = {} THEN {}
      ELSE IF closes = {} THEN {<<open, Len(src) + 1>>}
      ELSE {<<open, Least(closes)>>} \cup CharacterClasses(src, Least(closes) + 1)

\* the group name that starts at src[k], after (?< or \k<, is what "read"
\* gives with no name yet: its code points and the index after its >, or no
\* code point when it is not a name.  A
\* name is read as code points: a surrogate pair is one, and so is \uXXXX,
\* the \uXXXX\uXXXX of a pair and \u{X...}.  Its first is of ID_Start, $ or
\* _; the others are of ID_Continue, $ or a joiner; a > ends the name, also
\* one written as an escape
RECURSIVE GroupName(_, _, _, _)
GroupName(op, src, k, name) ==
  CASE op = "read" ->
         \* the name from the code point at src[k] on, name being read
         LET p == GroupName("point", src, k, 0)
         IN  IF p[1] < 0 \/ p[1] = 92 THEN [name |-> << >>, next |-> 0]
             ELSE IF name = << >>
             THEN IF GroupName("start", src, p[1], 0)
                  THEN GroupName("read", src, p[2], <<p[1]>>)
                  ELSE [name |-> << >>, next |-> 0]
             ELSE IF p[1] = 62 THEN [name |-> name, next |-> p[2]]
             ELSE IF GroupName("part", src, p[1], 0)
             THEN GroupName("read", src, p[2], Append(name, p[1]))
             ELSE [name |-> << >>, next |-> 0]
    [] op = "point" ->
         \* the code point at src[k] and the index after it
         IF UnitAt(src, k) = 92 /\ UnitAt(src, k + 1) = 117
         THEN IF UnitAt(src, k + 2) = 123
              THEN GroupName("braced", src, k + 3, <<0, 0>>)
              ELSE IF GroupName("four", src, k + 2, 0) < 0 THEN <<0 - 1, 0>>
              ELSE IF /\ GroupName("four", src, k + 2, 0) \in 55296..56319
                      /\ UnitAt(src, k + 6) = 92
                      /\ UnitAt(src, k + 7) = 117
                      /\ GroupName("four", src, k + 8, 0) \in 56320..57343
              THEN <<65536 + (GroupName("four", src, k + 2, 0) - 55296) * 1024
                       + (GroupName("four", src, k + 8, 0) - 56320),
                     k + 12>>
              ELSE <<GroupName("four", src, k + 2, 0), k + 6>>
         ELSE IF /\ UnitAt(src, k) \in 55296..56319
                 /\ UnitAt(src, k + 1) \in 56320..57343
         THEN <<65536 + (src[k] - 55296) * 1024 + (src[k + 1] - 56320), k + 2>>
         ELSE <<UnitAt(src, k), k + 1>>
    [] op = "four" ->
         \* the number of the four hexadecimal digits from src[k], or -1
         LET IsHex(c) == c \in (48..57) \cup (65..70) \cup (97..102)
             Hex(c) == IF c <= 57 THEN c - 48 ELSE IF c <= 70 THEN c - 55 ELSE c - 87
         IN  IF \A d \in 0..3 : IsHex(UnitAt(src, k + d))
             THEN Hex(src[k]) * 4096 + Hex(src[k + 1]) * 256
                    + Hex(src[k + 2]) * 16 + Hex(src[k + 3])
             ELSE 0 - 1
    [] op = "braced" ->
         \* \u{X...} from the digit at src[k] on, name being the number and
         \* the count of the digits read: one digit or more, no number above
         \* 10FFFF
         LET IsHex(c) == c \in (48..57) \cup (65..70) \cup (97..102)
             Hex(c) == IF c <= 57 THEN c - 48 ELSE IF c <= 70 THEN c - 55 ELSE c - 87
         IN  IF IsHex(UnitAt(src, k))
             THEN IF name[1] * 16 + Hex(src[k]) > 1114111 THEN <<0 - 1, 0>>
                  ELSE GroupName("braced", src, k + 1,
                                 <<name[1] * 16 + Hex(src[k]), name[2] + 1>>)
             ELSE IF UnitAt(src, k) = 125 /\ name[2] > 0 THEN <<name[1], k + 1>>
             ELSE <<0 - 1, 0>>
    [] op = "start" ->
         \* IsIdentifierStart of the code point k
         IF k < 128 THEN k \in (65..90) \cup (97..122) \cup {36, 95}
         ELSE \E r \in IdStartRanges : k >= r[1] /\ k <= r[2]
    [] op = "part" ->
         \* IsIdentifierPart of the code point k
         \/ GroupName("start", src, k, 0)
         \/ IsDigit(k)
         \/ k >= 128 /\ \E r \in IdContinueRanges : k >= r[1] /\ k <= r[2]

\* what the parser knows of the whole pattern before it reads a term: its
\* character classes, its capturing groups in the order of their (, and the
\* indices of the characters that stand for themselves outside of a class,
\* an escaped syntax character with its backslash among them
PatternOf(src) ==
  LET \* ^ $ \ . * + ? ( ) [ ] { } |
      SyntaxCharacters ==
        {94, 36, 92, 46, 42, 43, 63, 40, 41, 91, 93, 123, 125, 124}
      classes == CharacterClasses(src, 1)
      escaped == {i \in 1..Len(src) : Escaped(src, i)}
      parens == {i \in 1..Len(src) :
                   /\ src[i] = 40
                   /\ ~Escaped(src, i)
                   /\ ~\E c \in classes : c[1] < i /\ i < c[2]}
      capturing == {i \in parens :
                      \/ UnitAt(src, i + 1) # 63
                      \/ /\ UnitAt(src, i + 2) = 60
                         /\ UnitAt(src, i + 3) \notin {61, 33}}
      captures == [k \in 1..Cardinality(capturing) |->
                     LET at == CHOOSE i \in capturing :
                                 Cardinality({j \in capturing : j <= i}) = k
                     IN  [at |-> at,
                          name |-> IF UnitAt(src, at + 1) = 63
                                   THEN GroupName("read", src, at + 3, << >>).name
                                   ELSE << >>]]
  IN  [src |-> src,
       classes |-> classes,
       captures |-> captures,
       escaped |-> escaped,
       literal |-> {j \in 1..Len(src) :
                      \/ (j \notin escaped /\ src[j] \notin SyntaxCharacters)
                      \/ (j \in escaped /\ src[j] \in SyntaxCharacters)
                      \/ /\ j \notin escaped
                         /\ src[j] = 92
                         /\ UnitAt(src, j + 1) \in SyntaxCharacters},
       named |-> \E i \in capturing : UnitAt(src, i + 1) = 63]

\* the result of a parsing step: the node read, the index after it, and the
\* group names defined in it; or a SyntaxError
Parsed(node, next, names) ==
  [ok |-> TRUE, node |-> node, next |-> next, names |-> names]

SyntaxError ==
  [ok |-> FALSE, node |-> [kind |-> "seq", items |-> << >>], next |-> 0, names |-> {}]

\* the escape whose backslash is src[p], in a character class or outside of
\* one: a character, one of the sets \d \D \s \S \w \W, or a backreference
Escape(ctx, p, inClass) ==
  LET src == ctx.src
      e == UnitAt(src, p + 1)
      e2 == UnitAt(src, p + 2)
      e3 == UnitAt(src, p + 3)
      IsOctal(c) == c \in 48..55
      IsHex(c) == c \in (48..57) \cup (65..70) \cup (97..102)
      Hex(c) == IF c <= 57 THEN c - 48 ELSE IF c <= 70 THEN c - 55 ELSE c - 87
      Char(c, next) == [ok |-> TRUE, kind |-> "char", c |-> c, next |-> next]
      bad == [ok |-> FALSE, kind |-> "char", c |-> 0, next |-> 0]
      decimal == ReadNat(src, p + 1, 0)
      Called(name) == {k \in 1..Len(ctx.captures) : ctx.captures[k].name = name}
      Reference(ref) ==
        IF inClass \/ ref.name = << >> \/ Called(ref.name) = {} THEN bad
        ELSE [ok |-> TRUE, kind |-> "backref", c |-> Called(ref.name),
              next |-> ref.next]
  IN  IF e < 0 THEN bad
      ELSE IF e \in {100, 68, 115, 83, 119, 87}
      THEN [ok |-> TRUE, kind |-> "set", c |-> e, next |-> p + 2]
      ELSE IF e = 98 /\ inClass THEN Char(8, p + 2)
      ELSE IF ~inClass /\ e \in 49..57 /\ decimal[1] <= Len(ctx.captures)
      THEN [ok |-> TRUE, kind |-> "backref", c |-> {decimal[1]}, next |-> decimal[2]]
      \* a legacy octal escape of up to three digits, at most \377
      ELSE IF IsOctal(e)
      THEN IF IsOctal(e2) /\ e <= 51 /\ IsOctal(e3)
           THEN Char((e - 48) * 64 + (e2 - 48) * 8 + (e3 - 48), p + 4)
           ELSE IF IsOctal(e2) THEN Char((e - 48) * 8 + (e2 - 48), p + 3)
           ELSE Char(e - 48, p + 2)
      ELSE IF e = 102 THEN Char(12, p + 2)
      ELSE IF e = 110 THEN Char(10, p + 2)
      ELSE IF e = 114 THEN Char(13, p + 2)
      ELSE IF e = 116 THEN Char(9, p + 2)
      ELSE IF e = 118 THEN Char(11, p + 2)
      \* \c and a control letter; without one the backslash stands for itself
      ELSE IF e = 99
      THEN IF \/ e2 \in (65..90) \cup (97..122)
              \/ (inClass /\ (IsDigit(e2) \/ e2 = 95))
           THEN Char(e2 % 32, p + 3)
           ELSE Char(92, p + 1)
      ELSE IF e = 120 /\ IsHex(e2) /\ IsHex(e3)
      THEN Char(Hex(e2) * 16 + Hex(e3), p + 4)
      ELSE IF /\ e = 117
              /\ \A j \in 2..5 : IsHex(UnitAt(src, p + j))
      THEN Char(Hex(e2) * 4096 + Hex(e3) * 256 + Hex(UnitAt(src, p + 4)) * 16
                  + Hex(UnitAt(src, p + 5)), p + 6)
      \* \k<name>, once the pattern has a named group
      ELSE IF e = 107 /\ ctx.named
      THEN Reference(IF e2 = 60 THEN GroupName("read", src, p + 3, << >>)
                     ELSE [name |-> << >>, next |-> 0])
      ELSE Char(e, p + 2)

\* the ClassContents src[p..close-1]: its ranges <<first, last>> and the
\* sets its escapes name
RECURSIVE ClassContents(_, _, _)
ClassContents(ctx, p, close) ==
  LET bad == [ok |-> FALSE, ranges |-> {}, sets |-> {}]
      \* one ClassAtom at src[q]
      ClassAtom(q) ==
        IF ctx.src[q] = 92 THEN Escape(ctx, q, TRUE)
        ELSE [ok |-> TRUE, kind |-> "char", c |-> ctx.src[q], next |-> q + 1]
      Lone(x) == IF x.kind = "char" THEN {<<x.c, x.c>>} ELSE {}
      Set(x) == IF x.kind = "set" THEN {x.c} ELSE {}
      \* the atom a, the atom b after a -, and the rest of the contents
      Contents(a, dash, b, rest) ==
        LET range == a.kind = "char" /\ b.kind = "char"
        IN  IF ~a.ok \/ (dash /\ ~b.ok) \/ (dash /\ range /\ a.c > b.c) \/ ~rest.ok
            THEN bad
            ELSE IF ~dash
            THEN [ok |-> TRUE, ranges |-> Lone(a) \cup rest.ranges,
                  sets |-> Set(a) \cup rest.sets]
            ELSE IF range
            THEN [ok |-> TRUE, ranges |-> {<<a.c, b.c>>} \cup rest.ranges,
                  sets |-> rest.sets]
            \* a set on either side: the - is itself
            ELSE [ok |-> TRUE,
                  ranges |-> Lone(a) \cup {<<45, 45>>} \cup Lone(b) \cup rest.ranges,
                  sets |-> Set(a) \cup Set(b) \cup rest.sets]
      Second(a, dash, b) ==
        Contents(a, dash, b,
                 ClassContents(ctx, IF dash THEN b.next ELSE a.next, close))
      \* dash: a - with an atom after it
      First(a) ==
        Second(a, a.next < close - 1 /\ ctx.src[a.next] = 45,
               ClassAtom(a.next + 1))
  IN  IF p >= close THEN [ok |-> TRUE, ranges |-> {}, sets |-> {}]
      ELSE First(ClassAtom(p))

\* the quantifier at src[j], if there is one: * + ? {n} {n,} {n,m}, lazy
\* with a ? after it; max = -1 is no upper limit (RegExpTree::kInfinity =
\* kMaxInt, which a number of 2147483647 or more is as well)
Quantifier(src, j) ==
  LET c == UnitAt(src, j)
      lo == ReadNat(src, j + 1, 0)
      hi == ReadNat(src, lo[2] + 1, 0)
      Limit(v) == IF v = 2147483647 THEN 0 - 1 ELSE v
      exact == lo[2] > j + 1 /\ UnitAt(src, lo[2]) = 125
      comma == lo[2] > j + 1 /\ UnitAt(src, lo[2]) = 44
      open == comma /\ UnitAt(src, lo[2] + 1) = 125
      both == comma /\ hi[2] > lo[2] + 1 /\ UnitAt(src, hi[2]) = 125
      present == c \in {42, 43, 63} \/ (c = 123 /\ (exact \/ open \/ both))
      min == IF c = 43 THEN 1 ELSE IF c \in {42, 63} THEN 0 ELSE lo[1]
      max == IF c \in {42, 43} THEN 0 - 1
             ELSE IF c = 63 THEN 1
             ELSE IF exact THEN Limit(lo[1])
             ELSE IF open THEN 0 - 1
             ELSE Limit(hi[1])
      after == IF c \in {42, 43, 63} THEN j + 1
               ELSE IF exact THEN lo[2] + 1
               ELSE IF open THEN lo[2] + 2
               ELSE hi[2] + 1
      lazy == UnitAt(src, after) = 63
  IN  [present |-> present,
       ok |-> max < 0 \/ min <= max,
       min |-> min,
       max |-> max,
       greedy |-> ~lazy,
       next |-> IF lazy THEN after + 1 ELSE after]

\* the atom read from src[i] with the quantifier after it, if there is one
Quantified(ctx, i, atom) ==
  LET With(q) ==
        IF ~atom.ok THEN SyntaxError
        ELSE IF ~q.present THEN atom
        ELSE IF ~q.ok THEN SyntaxError
        ELSE Parsed([kind |-> "rep", body |-> atom.node, min |-> q.min,
                     max |-> q.max, greedy |-> q.greedy,
                     inner |-> {k \in 1..Len(ctx.captures) :
                                  /\ ctx.captures[k].at >= i
                                  /\ ctx.captures[k].at < atom.next}],
                    q.next, atom.names)
  IN  With(Quantifier(ctx.src, atom.next))

\* Disjunction, Alternative and Term of the pattern grammar, read from
\* src[i] under the flags f (ignoreCase, multiline, dotAll)
RECURSIVE ParseDisjunction(_, _, _)
RECURSIVE ParseAlternative(_, _, _)
RECURSIVE ParseTerm(_, _, _)
ParseDisjunction(ctx, i, f) ==
  LET Either(a, rest) ==
        IF ~rest.ok THEN SyntaxError
        \* two groups of one name
        ELSE IF a.names \cap rest.names # {} THEN SyntaxError
        ELSE Parsed([kind |-> "alt", first |-> a.node, rest |-> rest.node],
                    rest.next, a.names \cup rest.names)
      From(a) ==
        IF ~a.ok THEN SyntaxError
        ELSE IF UnitAt(ctx.src, a.next) # 124 THEN a
        ELSE Either(a, ParseDisjunction(ctx, a.next + 1, f))
  IN  From(ParseAlternative(ctx, i, f))

ParseAlternative(ctx, i, f) ==
  LET Terms(t, rest) ==
        IF ~t.ok \/ ~rest.ok THEN SyntaxError
        \* two groups of one name
        ELSE IF t.names \cap rest.names # {} THEN SyntaxError
        ELSE Parsed([kind |-> "seq", items |-> <<t.node>> \o rest.node.items],
                    rest.next, t.names \cup rest.names)
      From(t) == Terms(t, ParseAlternative(ctx, t.next, f))
  IN  IF UnitAt(ctx.src, i) \in {0 - 1, 124, 41}
      THEN Parsed([kind |-> "seq", items |-> << >>], i, {})
      ELSE From(ParseTerm(ctx, i, f))

ParseTerm(ctx, i, f) ==
  LET src == ctx.src
      n == Len(src)
      c == src[i]
      c1 == UnitAt(src, i + 1)
      c2 == UnitAt(src, i + 2)
      c3 == UnitAt(src, i + 3)
      Char(u) == [kind |-> "char", c |-> u, i |-> f.i]
      \* the run of characters that stand for themselves from src[i] on, and
      \* the last character of the run
      stops == {j \in i..n : j \notin ctx.literal}
      last == IF stops = {} THEN n ELSE Least(stops) - 1
      units == {j \in i..last : j \notin ctx.escaped}
      final == CHOOSE j \in units : \A k \in units : j >= k
      Kept(j) == (i + j - 1) \in ctx.escaped \/ src[i + j - 1] # 92
      \* a group: its kind and where its body starts
      index == Least({k \in 1..Len(ctx.captures) : ctx.captures[k].at = i})
      behind == c1 = 63 /\ c2 = 60 /\ c3 \in {61, 33}
      Form(name) ==
        IF c1 # 63 THEN "capture"
        ELSE IF c2 = 58 THEN "plain"
        ELSE IF c2 \in {61, 33} THEN "ahead"
        ELSE IF behind THEN "behind"
        ELSE IF c2 = 60 /\ name # << >> THEN "named"
        ELSE "bad"
      Start(kind, named) ==
        CASE kind = "capture" -> i + 1
          [] kind \in {"plain", "ahead"} -> i + 3
          [] kind = "behind" -> i + 4
          [] kind = "named" -> named.next
          [] OTHER -> i + 1
      Group(kind, name, body) ==
        IF kind = "bad" \/ ~body.ok \/ UnitAt(src, body.next) # 41
        THEN SyntaxError
        ELSE IF kind = "named" /\ name \in body.names THEN SyntaxError
        ELSE IF kind \in {"ahead", "behind"}
        THEN Parsed([kind |-> "look",
                     dir |-> IF kind = "ahead" THEN 1 ELSE 0 - 1,
                     negate |-> (IF kind = "ahead" THEN c2 ELSE c3) = 33,
                     body |-> body.node],
                    body.next + 1, body.names)
        ELSE Parsed([kind |-> "group",
                     index |-> IF kind \in {"capture", "named"} THEN index ELSE 0,
                     body |-> body.node],
                    body.next + 1,
                    body.names \cup (IF kind = "named" THEN {name} ELSE {}))
      Formed(kind, named) ==
        Group(kind, named.name, ParseDisjunction(ctx, Start(kind, named), f))
      Named(named) == Formed(Form(named.name), named)
      Grouped(group) == IF behind THEN group ELSE Quantified(ctx, i, group)
      Class(close, negate, contents) ==
        IF close > n \/ ~contents.ok THEN SyntaxError
        ELSE Parsed([kind |-> "class", negate |-> negate,
                     ranges |-> contents.ranges, sets |-> contents.sets,
                     i |-> f.i],
                    close + 1, {})
      Negated(close, negate) ==
        Class(close, negate,
              ClassContents(ctx, IF negate THEN i + 2 ELSE i + 1, close))
      Closed(close) == Negated(close, i + 1 < close /\ c1 = 94)
      Escapes(e) ==
        IF ~e.ok THEN SyntaxError
        ELSE IF e.kind = "char" THEN Parsed(Char(e.c), e.next, {})
        ELSE IF e.kind = "set"
        THEN Parsed([kind |-> "class", negate |-> FALSE, ranges |-> {},
                     sets |-> {e.c}, i |-> f.i], e.next, {})
        ELSE Parsed([kind |-> "backref", groups |-> e.c, i |-> f.i], e.next, {})
  IN  IF c = 94 THEN Parsed([kind |-> "bol", m |-> f.m], i + 1, {})
      ELSE IF c = 36 THEN Parsed([kind |-> "eol", m |-> f.m], i + 1, {})
      ELSE IF c = 92 /\ c1 \in {98, 66}
      THEN Parsed([kind |-> "boundary", negate |-> c1 = 66], i + 2, {})
      \* nothing to repeat
      ELSE IF c \in {42, 43, 63} \/ (c = 123 /\ Quantifier(src, i).present)
      THEN SyntaxError
      ELSE IF c = 40
      THEN Grouped(Named(GroupName("read", src, i + 3, << >>)))
      ELSE IF c = 91
      THEN Quantified(ctx, i, Closed((CHOOSE k \in ctx.classes : k[1] = i)[2]))
      ELSE IF c = 46 THEN Quantified(ctx, i, Parsed([kind |-> "any", s |-> f.s], i + 1, {}))
      ELSE IF i \in ctx.literal
      THEN IF final = i
           THEN Quantified(ctx, i, Parsed(Char(IF c = 92 THEN c1 ELSE c),
                                          last + 1, {}))
           \* the run, without its last character when a quantifier follows
           ELSE LET to == IF Quantifier(src, last + 1).present
                          THEN final - 1 ELSE last
                IN  Parsed([kind |-> "str",
                            s |-> SelectSeq([j \in 1..(to - i + 1) |->
                                               IF Kept(j) THEN src[i + j - 1]
                                               ELSE 0 - 1],
                                            IsCodeUnit),
                            i |-> f.i],
                           to + 1, {})
      ELSE IF c = 92 THEN Quantified(ctx, i, Escapes(Escape(ctx, i, FALSE)))
      \* a { that opens no quantifier, a } or a ]
      ELSE Quantified(ctx, i, Parsed(Char(c), i + 1, {}))

\* new RegExp(source, 'gi'); ok = FALSE is a thrown SyntaxError
RegExpCompile(src) ==
  LET Compiled(ctx, d) ==
        IF d.ok /\ d.next = Len(src) + 1
        THEN [ok |-> TRUE, node |-> d.node, groups |-> Len(ctx.captures)]
        ELSE [ok |-> FALSE, node |-> [kind |-> "seq", items |-> << >>], groups |-> 0]
      Pattern(ctx) ==
        Compiled(ctx, ParseDisjunction(ctx, 1, [i |-> TRUE, m |-> FALSE, s |-> FALSE]))
  IN  Pattern(PatternOf(src))

\* whether the one-character node accepts code unit ch
Accepts(node, ch) ==
  LET \* the code units whose Canonicalize is cc
      Folds(cc) ==
        IF cc < 128 THEN {cc} \cup (IF cc \in 65..90 THEN {cc + 32} ELSE {})
        ELSE {u \in {cc} \cup {cc - r[4] + r[1] : r \in UpperRanges} :
                u >= 0 /\ Canon(u) = cc}
      InSet(e, a) ==
        CASE e = 100 -> IsDigit(a)
          [] e = 68 -> ~IsDigit(a)
          [] e = 115 -> IsSpace(a)
          [] e = 83 -> ~IsSpace(a)
          [] e = 119 -> IsWordChar(a)
          [] e = 87 -> ~IsWordChar(a)
      Member(a) ==
        \/ \E r \in node.ranges : a >= r[1] /\ a <= r[2]
        \/ \E e \in node.sets : InSet(e, a)
  IN  CASE node.kind = "char" ->
             IF node.i THEN Canon(ch) = Canon(node.c) ELSE ch = node.c
        [] node.kind = "any" -> node.s \/ ~IsLineTerminator(ch)
        [] node.kind = "class" ->
             (\E a \in (IF node.i THEN Folds(Canon(ch)) ELSE {ch}) : Member(a))
               # node.negate

\* the matcher of a node: the states in which a match of the node from
\* state x can end, in the order backtracking tries them.  A state is the
\* offset reached and the captures so far, each << >> or <<start, end>>;
\* dir is 1 forward and -1 backward (inside a lookbehind)
RECURSIVE Match(_, _, _, _)
RECURSIVE Sequence(_, _, _, _, _, _)
RECURSIVE Repeat(_, _, _, _, _, _)
Match(node, text, x, dir) ==
  LET n == Len(text)
      unit == IF dir = 1 THEN UnitAt(text, x.pos + 1) ELSE UnitAt(text, x.pos)
      Step(k) == [x EXCEPT !.pos = x.pos + dir * k]
      \* the string s at the offset, read in direction dir
      Here(s, fold) ==
        LET from == IF dir = 1 THEN x.pos ELSE x.pos - Len(s)
        IN  IF /\ from >= 0
               /\ from + Len(s) <= n
               /\ \A j \in 1..Len(s) :
                    IF fold THEN Canon(text[from + j]) = Canon(s[j])
                    ELSE text[from + j] = s[j]
            THEN <<Step(Len(s))>>
            ELSE << >>
      before == x.pos > 0 /\ IsWordChar(text[x.pos])
      after == x.pos < n /\ IsWordChar(text[x.pos + 1])
      k == node.kind
  IN  CASE k \in {"char", "any", "class"} ->
             IF unit >= 0 /\ Accepts(node, unit) THEN <<Step(1)>> ELSE << >>
        [] k = "str" -> Here(node.s, node.i)
        [] k = "bol" ->
             IF x.pos = 0 \/ (node.m /\ IsLineTerminator(text[x.pos]))
             THEN <<x>> ELSE << >>
        [] k = "eol" ->
             IF x.pos = n \/ (node.m /\ IsLineTerminator(text[x.pos + 1]))
             THEN <<x>> ELSE << >>
        [] k = "boundary" ->
             IF (before # after) # node.negate THEN <<x>> ELSE << >>
        [] k = "seq" -> Sequence(node.items, 1, Len(node.items), text, x, dir)
        [] k = "alt" ->
             Match(node.first, text, x, dir) \o Match(node.rest, text, x, dir)
        [] k = "group" ->
             LET r == Match(node.body, text, x, dir)
             IN  IF node.index = 0 THEN r
                 ELSE [j \in 1..Len(r) |->
                         [r[j] EXCEPT !.caps[node.index] =
                            IF dir = 1 THEN <<x.pos, r[j].pos>>
                            ELSE <<r[j].pos, x.pos>>]] \o << >>
        [] k = "look" ->
             LET r == Match(node.body, text, x, node.dir)
             IN  IF node.negate THEN (IF Len(r) = 0 THEN <<x>> ELSE << >>)
                 ELSE IF Len(r) = 0 THEN << >>
                 ELSE <<[pos |-> x.pos, caps |-> r[1].caps]>>
        [] k = "backref" ->
             LET set == {g \in node.groups : Len(x.caps[g]) > 0}
                 cap == x.caps[Least(set)]
             IN  IF set = {} THEN <<x>>
                 ELSE Here(SubSeq(text, cap[1] + 1, cap[2]), node.i)
        [] k = "rep" -> Repeat(node, node.min, node.max, text, x, dir)

\* the terms items[lo..hi] of an alternative one after the other, the last
\* one first when matching backward
Sequence(items, lo, hi, text, x, dir) ==
  LET half == (lo + hi) \div 2
      mid == IF dir = 1 THEN Sequence(items, lo, half, text, x, dir)
             ELSE Sequence(items, half + 1, hi, text, x, dir)
  IN  IF lo > hi THEN <<x>>
      ELSE IF lo = hi THEN Match(items[lo], text, x, dir)
      ELSE Flatten([j \in 1..Len(mid) |->
                      IF dir = 1 THEN Sequence(items, half + 1, hi, text, mid[j], dir)
                      ELSE Sequence(items, lo, half, text, mid[j], dir)])

\* RepeatMatcher: min..max matches of the body one after the other, an
\* iteration that takes nothing being turned down once min is reached
Repeat(node, min, max, text, x, dir) ==
  LET n == Len(text)
      \* a body of one character: the run of characters it accepts
      room == IF dir = 1 THEN n - x.pos ELSE x.pos
      cap == IF max < 0 THEN room ELSE Min(max, room)
      Unit(j) == IF dir = 1 THEN text[x.pos + j] ELSE text[x.pos - j + 1]
      Upto(stops) == IF stops = {} THEN cap ELSE Least(stops) - 1
      Runs(run) ==
        IF run < min THEN << >>
        ELSE [j \in 1..(run - min + 1) |->
                [x EXCEPT !.pos = x.pos + dir * (IF node.greedy THEN run - j + 1
                                                 ELSE min + j - 1)]] \o << >>
      \* any other body
      cleared == [x EXCEPT !.caps = [g \in DOMAIN x.caps |->
                                       IF g \in node.inner THEN << >> ELSE x.caps[g]]]
      Again(once) ==
        Flatten([j \in 1..Len(once) |->
                   IF min = 0 /\ once[j].pos = x.pos THEN << >>
                   ELSE Repeat(node, Max(min - 1, 0),
                               IF max < 0 THEN max ELSE max - 1,
                               text, once[j], dir)])
      Ends(more) ==
        IF min > 0 THEN more
        ELSE IF node.greedy THEN more \o <<x>>
        ELSE <<x>> \o more
  IN  IF max = 0 THEN <<x>>
      ELSE IF node.body.kind \in {"char", "any", "class"}
      THEN Runs(Upto({j \in 1..cap : ~Accepts(node.body, Unit(j))}))
      ELSE Ends(Again(Match(node.body, text, cleared, dir)))

\* RegExp.prototype.exec with the g flag: the leftmost match starting at or after
\* lastIndex, as [found, index, end]; the caller keeps lastIndex = end
Exec(regex, text, lastIndex) ==
  LET \* ends[p]: the matches that start at offset p
      Leftmost(ends) ==
        LET starts == {p \in DOMAIN ends : Len(ends[p]) > 0}
        IN  IF starts = {} THEN [found |-> FALSE, index |-> 0, end |-> 0]
            ELSE [found |-> TRUE, index |-> Least(starts),
                  end |-> ends[Least(starts)][1].pos]
  IN  Leftmost([p \in lastIndex..Len(text) |->
                  Match(regex.node, text,
                        [pos |-> p, caps |-> [g \in 1..regex.groups |-> << >>]], 1)])

(***************************************************************************)
(* Values                                                                  *)
(***************************************************************************)
\* a strategy's null result
Null == [isNull |-> TRUE]

TextRange(startOffset, endOffset, text, confidence) ==
  [startOffset |-> startOffset, endOffset |-> endOffset,
   text |-> text, confidence |-> confidence]

\* the cascade with the context search put before the primary recheck
Strategies_Swapped ==
  <<"context_match", "primary_position", "text_fingerprint",
    "structural_path", "fuzzy_match">>

\* the fixed cascade of findAnnotationPosition
Strategies ==
  <<"primary_position", "context_match", "text_fingerprint",
    "structural_path", "fuzzy_match">>

(***************************************************************************)
(* StructuralAnalyzer                                                      *)
(***************************************************************************)
\* an optional number is << >> (undefined) or <<value>>
calculateParagraphIndex(offset) == offset \div 300

\* `chapter_${Math.floor(offset / 5000)}`, kept as its number
findChapterId(offset) == offset \div 5000

\* `article_${Math.floor(offset / 1000)}`, kept as its number
findArticleId(offset) == offset \div 1000

\* analyze run from its call to its return; elementPath is TRUE when a
\* non-empty path string is stored
analyze(startOffset, endOffset, elementPath) ==
  [paragraphIndex |-> <<calculateParagraphIndex(startOffset)>>,
   elementPath |-> elementPath,
   chapterId |-> findChapterId(startOffset),
   articleId |-> findArticleId(startOffset)]

\* the paragraph search over the whole document
findByParagraphIndex_WholeDocument(textContent, paragraphIndex, targetText) ==
  LET targetIndex == IndexOf(textContent, targetText)
  IN  IF targetIndex # 0 - 1
      THEN TextRange(targetIndex, targetIndex + Len(targetText),
                     targetText, Decimal[80])
      ELSE Null

findByParagraphIndex(textContent, paragraphIndex, targetText) ==
  LET estimatedOffset == paragraphIndex * 300
      searchStart == Max(0, estimatedOffset - 100)
      searchEnd == Min(Len(textContent), estimatedOffset + 600)
      searchArea == Slice(textContent, searchStart, searchEnd)
      targetIndex == IndexOf(searchArea, targetText)
  IN  IF targetIndex # 0 - 1
      THEN TextRange(searchStart + targetIndex,
                     searchStart + targetIndex + Len(targetText),
                     targetText, Decimal[80])
      ELSE Null

findByElementPath(textContent, targetText) ==
  LET index == IndexOf(textContent, targetText)
  IN  IF index # 0 - 1
      THEN TextRange(index, index + Len(targetText), targetText, Decimal[90])
      ELSE Null

SA_findByStructuralPath(textContent, position) ==
  LET structural == position.structural
  IN  IF structural.paragraphIndex # << >>
      THEN findByParagraphIndex(textContent, structural.paragraphIndex[1],
                                position.primary.selectedText)
      ELSE IF structural.elementPath
           THEN findByElementPath(textContent, position.primary.selectedText)
           ELSE Null

(***************************************************************************)
(* TextMatchingAlgorithm                                                   *)
(***************************************************************************)
\* text.replace(/[.*+?^${}()|[\]\\]/g, '\\$&')
escapeRegex(text) ==
  LET RegexSpecials == {46, 42, 43, 63, 94, 36, 123, 125, 40, 41, 124, 91, 93, 92}
  IN
  IF Len(text) = 0 THEN << >> ELSE
  Flatten([i \in 1..Len(text) |->
             IF text[i] \in RegexSpecials THEN <<92, text[i]>> ELSE <<text[i]>>])

\* `${before}.{0,200}${after}`
buildContextPattern(context) ==
  RegExpCompile(escapeRegex(context.before)
                \o <<46, 123, 48, 44, 50, 48, 48, 125>>
                \o escapeRegex(context.after))

TextMatch(text, index, end) ==
  [startOffset |-> index, endOffset |-> end, text |-> Slice(text, index, end)]

calculatePositionSimilarity(match, position) ==
  LET originalStart == position.primary.startOffset
      distance == Abs(match.startOffset - originalStart)
      maxDistance == RMax(Rat(1000, 1), RMul(Rat(originalStart, 1), Decimal[10]))
  IN  RMax(Zero, RSub(One, RDiv(Rat(distance, 1), maxDistance)))

calculateLengthSimilarity(match, position) ==
  LET originalLength == Len(position.primary.selectedText)
      matchLength == Len(match.text)
  IN  IF originalLength = 0 THEN (IF matchLength = 0 THEN One ELSE Zero)
      ELSE Rat(Min(matchLength, originalLength), Max(matchLength, originalLength))

calculateMatchScore(match, position) ==
  RAdd(RAdd(RAdd(Zero,
                 RMul(calculatePositionSimilarity(match, position), Decimal[30])),
            RMul(TMA_calculateTextSimilarity(match.text,
                                             position.primary.selectedText),
                 Decimal[40])),
       RMul(calculateLengthSimilarity(match, position), Decimal[30]))

\* matches.reduce((best, current) => score(current) > score(best) ? current : best)
RECURSIVE ReduceBest(_, _, _, _)
ReduceBest(matches, i, best, position) ==
  IF i > Len(matches) THEN best
  ELSE ReduceBest(matches, i + 1,
                  IF RLt(calculateMatchScore(best, position),
                         calculateMatchScore(matches[i], position))
                  THEN matches[i] ELSE best,
                  position)

\* called with at least one match
selectBestMatch(matches, position) ==
  IF Len(matches) = 1 THEN matches[1]
  ELSE ReduceBest(matches, 1, matches[1], position)

\* the context window itself, the exact text not looked for inside it
locateExactText_WindowOnly(textContent, match, targetText) ==
  TextRange(match.startOffset, match.endOffset, match.text, Decimal[70])

locateExactText(textContent, match, targetText) ==
  LET searchArea == Slice(textContent, match.startOffset, match.endOffset)
      targetIndex == IndexOf(searchArea, targetText)
  IN  IF targetIndex # 0 - 1
      THEN TextRange(match.startOffset + targetIndex,
                     match.startOffset + targetIndex + Len(targetText),
                     targetText, Decimal[95])
      ELSE TextRange(match.startOffset, match.endOffset, match.text, Decimal[70])

\* findByContextMatch once findMatches has returned its list
contextMatchResult(textContent, matches, position) ==
  IF Len(matches) = 0 THEN Null
  ELSE locateExactText(textContent, selectBestMatch(matches, position),
                       position.primary.selectedText)

RECURSIVE FingerprintScan(_, _, _, _, _)
FingerprintScan(textContent, targetText, fingerprint, step, i) ==
  LET windowSize == Len(targetText)
      candidate == Slice(textContent, i, i + windowSize)
      similarity == TMA_calculateTextSimilarity(targetText, candidate)
  IN  IF i > Len(textContent) - windowSize THEN Null
      ELSE IF /\ compareFingerprints(fingerprint,
                                     TMA_generateTextFingerprint(candidate))
              /\ RLt(Decimal[80], similarity)
           THEN TextRange(i, i + windowSize, candidate, similarity)
           ELSE FingerprintScan(textContent, targetText, fingerprint, step, i + step)

\* the scan with a window at every offset
findByTextFingerprint_EveryOffset(textContent, position) ==
  FingerprintScan(textContent, position.primary.selectedText,
                  position.fingerprint, 1, 0)

findByTextFingerprint(textContent, position) ==
  LET targetText == position.primary.selectedText
      step == Max(1, Len(targetText) \div 4)
  IN  FingerprintScan(textContent, targetText, position.fingerprint, step, 0)

findOriginalPosition(originalText, normalizedIndex, normalizedLength) ==
  normalizedIndex

findBestSubstringMatch(textContent, targetText) ==
  LET normalizedTarget == TMA_normalizeText(targetText)
      normalizedContent == TMA_normalizeText(textContent)
      index == IndexOf(normalizedContent, normalizedTarget)
      originalIndex == findOriginalPosition(textContent, index, Len(normalizedTarget))
  IN  IF index # 0 - 1 /\ originalIndex # 0 - 1
      THEN TextRange(originalIndex, originalIndex + Len(targetText),
                     Slice(textContent, originalIndex,
                           originalIndex + Len(targetText)),
                     Decimal[80])
      ELSE Null

\* words.join('\\s*')
fuzzySearchPattern(targetText) == Join(SplitWhitespace(targetText), <<92, 115, 42>>)

\* findByFuzzyMatch without its own try/catch: the SyntaxError of new RegExp
\* leaves the strategy
findByFuzzyMatch_Rethrows(textContent, position) ==
  LET targetText == position.primary.selectedText
      Scored(bestMatch, matchedText, similarity) ==
        IF bestMatch.found /\ RLt(Decimal[60], similarity)
        THEN TextRange(bestMatch.index, bestMatch.index + Len(matchedText),
                       matchedText, similarity)
        ELSE findBestSubstringMatch(textContent, targetText)
      Matched(bestMatch, matchedText) ==
        Scored(bestMatch, matchedText,
               TMA_calculateTextSimilarity(targetText, matchedText))
      Found(bestMatch) ==
        Matched(bestMatch, Slice(textContent, bestMatch.index, bestMatch.end))
      Search(regex) ==
        IF ~regex.ok THEN [thrown |-> "Invalid regular expression"]
        ELSE Found(Exec(regex, textContent, 0))
  IN  Search(RegExpCompile(fuzzySearchPattern(targetText)))

findByFuzzyMatch(textContent, position) ==
  LET targetText == position.primary.selectedText
      Scored(bestMatch, matchedText, similarity) ==
        IF bestMatch.found /\ RLt(Decimal[60], similarity)
        THEN TextRange(bestMatch.index, bestMatch.index + Len(matchedText),
                       matchedText, similarity)
        ELSE findBestSubstringMatch(textContent, targetText)
      Matched(bestMatch, matchedText) ==
        Scored(bestMatch, matchedText,
               TMA_calculateTextSimilarity(targetText, matchedText))
      \* matches[0] of Array.from(textContent.matchAll(regex))
      Found(bestMatch) ==
        Matched(bestMatch, Slice(textContent, bestMatch.index, bestMatch.end))
      \* the SyntaxError of new RegExp is caught: the substring search
      Search(regex) ==
        IF ~regex.ok THEN findBestSubstringMatch(textContent, targetText)
        ELSE Found(Exec(regex, textContent, 0))
  IN  Search(RegExpCompile(fuzzySearchPattern(targetText)))

(***************************************************************************)
(* PositionService                                                         *)
(***************************************************************************)
\* the sum of the factors without the cap
calculatePositionConfidence_Uncapped(selectionData) ==
  LET c0 == Decimal[50]
      c1 == IF Len(selectionData.selectedText) > 10
            THEN RAdd(c0, Decimal[10]) ELSE c0
      c2 == IF Len(selectionData.selectedText) > 50
            THEN RAdd(c1, Decimal[10]) ELSE c1
      c3 == IF Len(selectionData.contextBefore) > 20
            THEN RAdd(c2, Decimal[10]) ELSE c2
      c4 == IF Len(selectionData.contextAfter) > 20
            THEN RAdd(c3, Decimal[10]) ELSE c3
  IN  IF selectionData.elementPath THEN RAdd(c4, Decimal[20]) ELSE c4

\* confidence = 0.5, then += 0.1 or 0.2 for each signal in the source's order
calculatePositionConfidence(selectionData) ==
  LET c0 == Decimal[50]
      c1 == IF Len(selectionData.selectedText) > 10
            THEN RAdd(c0, Decimal[10]) ELSE c0
      c2 == IF Len(selectionData.selectedText) > 50
            THEN RAdd(c1, Decimal[10]) ELSE c1
      c3 == IF Len(selectionData.contextBefore) > 20
            THEN RAdd(c2, Decimal[10]) ELSE c2
      c4 == IF Len(selectionData.contextAfter) > 20
            THEN RAdd(c3, Decimal[10]) ELSE c3
  IN  RMin(IF selectionData.elementPath THEN RAdd(c4, Decimal[20]) ELSE c4, One)

\* the locator with the hash taken of the stored, truncated contexts
calculatePosition_HashOfStored(selectionData) ==
  [primary |-> [startOffset |-> selectionData.startOffset,
                endOffset |-> selectionData.endOffset,
                selectedText |-> selectionData.selectedText],
   context |-> [before |-> Slice(selectionData.contextBefore, 0 - 50,
                                Len(selectionData.contextBefore)),
                after |-> Slice(selectionData.contextAfter, 0, 50),
                hash |-> generateContextHash(
                           Slice(selectionData.contextBefore, 0 - 50,
                                Len(selectionData.contextBefore)),
                           selectionData.selectedText,
                           Slice(selectionData.contextAfter, 0, 50))],
   structural |-> analyze(selectionData.startOffset, selectionData.endOffset,
                          selectionData.elementPath),
   fingerprint |-> PS_generateTextFingerprint(selectionData.selectedText,
                                              selectionData.contextBefore,
                                              selectionData.contextAfter),
   metadata |-> [createdAt |-> "calculatePosition",
                 textLength |-> Len(selectionData.selectedText),
                 confidence |-> calculatePositionConfidence(selectionData)]]

calculatePosition(selectionData) ==
  [primary |-> [startOffset |-> selectionData.startOffset,
                endOffset |-> selectionData.endOffset,
                selectedText |-> selectionData.selectedText],
   context |-> [before |-> Slice(selectionData.contextBefore, 0 - 50,
                                Len(selectionData.contextBefore)),
                after |-> Slice(selectionData.contextAfter, 0, 50),
                hash |-> generateContextHash(selectionData.contextBefore,
                                             selectionData.selectedText,
                                             selectionData.contextAfter)],
   structural |-> analyze(selectionData.startOffset, selectionData.endOffset,
                          selectionData.elementPath),
   fingerprint |-> PS_generateTextFingerprint(selectionData.selectedText,
                                              selectionData.contextBefore,
                                              selectionData.contextAfter),
   \* createdAt: new Date(), named by the call that made it
   metadata |-> [createdAt |-> "calculatePosition",
                 textLength |-> Len(selectionData.selectedText),
                 confidence |-> calculatePositionConfidence(selectionData)]]

\* the recheck without the test of the offsets
findByPrimaryPosition_NoBoundsTest(textContent, position) ==
  LET startOffset == position.primary.startOffset
      endOffset == position.primary.endOffset
      selectedText == position.primary.selectedText
      extractedText == Slice(textContent, startOffset, endOffset)
  IN  IF extractedText = selectedText
      THEN TextRange(startOffset, endOffset, extractedText, One)
      ELSE IF PS_normalizeText(extractedText) = PS_normalizeText(selectedText)
           THEN TextRange(startOffset, endOffset, extractedText, Decimal[90])
           ELSE Null

findByPrimaryPosition(textContent, position) ==
  LET startOffset == position.primary.startOffset
      endOffset == position.primary.endOffset
      selectedText == position.primary.selectedText
      extractedText == Slice(textContent, startOffset, endOffset)
  IN  IF startOffset < 0 \/ endOffset > Len(textContent) \/ startOffset >= endOffset
      THEN Null
      ELSE IF extractedText = selectedText
           THEN TextRange(startOffset, endOffset, extractedText, One)
           ELSE IF PS_normalizeText(extractedText) = PS_normalizeText(selectedText)
                THEN TextRange(startOffset, endOffset, extractedText, Decimal[90])
                ELSE Null

PS_findByStructuralPath(textContent, position) ==
  IF /\ ~position.structural.elementPath
     /\ (position.structural.paragraphIndex = << >>
           \/ position.structural.paragraphIndex = <<0>>)
  THEN Null
  ELSE SA_findByStructuralPath(textContent, position)

\* validation without the similarity test
validatePosition_NoSimilarity(result, originalPosition) ==
  LET originalLength == Len(originalPosition.primary.selectedText)
      lengthRatio == Rat(Len(result.text), originalLength)
  IN  /\ Len(result.text) # 0
      /\ originalLength # 0
      /\ ~(RLt(lengthRatio, Decimal[50]) \/ RLt(Rat(2, 1), lengthRatio))

validatePosition(result, originalPosition) ==
  LET originalLength == Len(originalPosition.primary.selectedText)
      lengthRatio == Rat(Len(result.text), originalLength)
  IN  /\ Len(result.text) # 0
      \* a length over 0 is Infinity, which is above 2.0
      /\ originalLength # 0
      /\ ~(RLt(lengthRatio, Decimal[50]) \/ RLt(Rat(2, 1), lengthRatio))
      /\ RLe(Decimal[60],
             PS_calculateTextSimilarity(result.text,
                                        originalPosition.primary.selectedText))

calculatePositionAccuracy(result, originalPosition) ==
  LET originalStart == originalPosition.primary.startOffset
      originalEnd == originalPosition.primary.endOffset
      startDiff == Abs(result.startOffset - originalStart)
      endDiff == Abs(result.endOffset - originalEnd)
      textLength == originalEnd - originalStart
      maxAllowedDiff == RMax(RMul(Rat(textLength, 1), Decimal[10]), Rat(10, 1))
      startAccuracy ==
        RMax(Zero, RSub(One, RDiv(Rat(startDiff, 1), maxAllowedDiff)))
      endAccuracy ==
        RMax(Zero, RSub(One, RDiv(Rat(endDiff, 1), maxAllowedDiff)))
  IN  RDiv(RAdd(startAccuracy, endAccuracy), Rat(2, 1))

calculateLengthConsistency(result, originalPosition) ==
  LET originalLength == Len(originalPosition.primary.selectedText)
      currentLength == Len(result.text)
  IN  IF originalLength = 0 THEN (IF currentLength = 0 THEN One ELSE Zero)
      ELSE Rat(Min(currentLength, originalLength),
               Max(currentLength, originalLength))

\* a context term that is a full match
calculateContextMatch_Full(result, originalPosition) == One

calculateContextMatch(result, originalPosition) == Decimal[80]

\* the text term of the blend alone
calculateMatchConfidence_TextOnly(result, originalPosition) ==
  RMul(PS_calculateTextSimilarity(result.text,
                                  originalPosition.primary.selectedText),
       Decimal[40])

\* the confidence the strategy gave its range
calculateMatchConfidence_Raw(result, originalPosition) == result.confidence

calculateMatchConfidence(result, originalPosition) ==
  LET textSimilarity ==
        PS_calculateTextSimilarity(result.text,
                                   originalPosition.primary.selectedText)
      positionAccuracy == calculatePositionAccuracy(result, originalPosition)
      lengthConsistency == calculateLengthConsistency(result, originalPosition)
      contextMatch == calculateContextMatch(result, originalPosition)
  \* confidence = 0, then += each term in the source's order
  IN  RMin(RAdd(RAdd(RAdd(RAdd(Zero, RMul(textSimilarity, Decimal[40])),
                          RMul(positionAccuracy, Decimal[30])),
                     RMul(lengthConsistency, Decimal[20])),
                RMul(contextMatch, Decimal[10])),
           One)

\* the locator built afresh around the new range: metadata stamped again and
\* the context taken from the range
updatePosition_Rebuilt(originalPosition, newRange) ==
  [originalPosition EXCEPT
     !.primary = [startOffset |-> newRange.startOffset,
                  endOffset |-> newRange.endOffset,
                  selectedText |-> newRange.text],
     !.metadata = [createdAt |-> "findAnnotationPosition",
                   textLength |-> Len(newRange.text),
                   confidence |-> IF newRange.confidence = Zero THEN Decimal[80]
                                  ELSE newRange.confidence]]

updatePosition(originalPosition, newRange) ==
  [originalPosition EXCEPT
     !.primary = [startOffset |-> newRange.startOffset,
                  endOffset |-> newRange.endOffset,
                  selectedText |-> newRange.text],
     !.metadata.confidence =
        IF newRange.confidence = Zero THEN Decimal[80] ELSE newRange.confidence]

AnnotationMatch(range, confidence, method) ==
  [range |-> range, confidence |-> confidence, method |-> method]

\* the reduce keeping the later of two matches of equal confidence
RECURSIVE BestMatchFrom_Latest(_, _, _)
BestMatchFrom_Latest(ms, i, best) ==
  IF i > Len(ms) THEN best
  ELSE BestMatchFrom_Latest(ms, i + 1,
                            IF RLe(best.confidence, ms[i].confidence)
                            THEN ms[i] ELSE best)

bestMatchOf_Latest(ms) == BestMatchFrom_Latest(ms, 2, ms[1])

\* matches.reduce((best, current) => current.confidence > best.confidence ? current : best)
RECURSIVE BestMatchFrom(_, _, _)
BestMatchFrom(ms, i, best) ==
  IF i > Len(ms) THEN best
  ELSE BestMatchFrom(ms, i + 1,
                     IF RLt(best.confidence, ms[i].confidence) THEN ms[i] ELSE best)

bestMatchOf(ms) == BestMatchFrom(ms, 2, ms[1])

(***************************************************************************)
(* Inputs                                                                  *)
(***************************************************************************)
\* bounds of the model
MaxLen == 2

MaxShift == 10

MaxScan == 6

\* code units of the short documents: a, b, space, full stop
Sigma == {97, 98, 32, 46}

ShortDocs == UNION {[1..n -> Sigma] : n \in 1..MaxLen}

\* "第一條 規定如下：任何人不得..."
ExampleDoc ==
  <<31532, 19968, 26781, 32, 35215, 23450, 22914, 19979, 65306,
    20219, 20309, 20154, 19981, 24471, 46, 46, 46>>

\* a span longer than 100 characters, for which the allowed offset error of
\* calculatePositionAccuracy is a tenth of the span: b-aaa...ab, 151 of its
\* characters (the hyphen and the 150 a) selected
LongDoc == <<98, 45>> \o [i \in 1..150 |-> 97] \o <<98>>

\* a document with a regular-expression metacharacter: a(b
ParenDoc == <<97, 40, 98>>

\* a document ending in a punctuation mark that normalisation removes: ba.
ClauseDoc == <<98, 97, 46>>

\* a document whose selected text abcd an edit leaves twice, spread out as
\* (ab  cd) and as it was: the confidences of the two differ in the last
\* bits of the double only, one 0.6799999999999999 and one
\* 0.6800000000000002.  (abcd)
RoundingDoc == <<40, 97, 98, 99, 100, 41>>

\* a document with two annotations, on aa and on bb: aa bb.
PairDoc == <<97, 97, 32, 98, 98, 46>>

\* a document whose selection 0y  zz   ww, with ab, and a space before it,
\* has one word of more than two characters, so that its locator stores the
\* digest of the empty trigram list, 0: ab, 0y  zz   ww
DigestDoc ==
  <<97, 98, 44, 32, 48, 121, 32, 32, 122, 122, 32, 32, 32, 119, 119>>

\* k copies of the letter x
Filler(k) == [i \in 1..k |-> 120]

\* what the selection-capturing client hands over for the span [s, e) of a
\* document: the span's text and up to 100 characters on either side
Capture(doc, s, e, elementPath) ==
  [selectedText |-> Slice(doc, s, e),
   startOffset |-> s,
   endOffset |-> e,
   contextBefore |-> Slice(doc, Max(0, s - 100), s),
   contextAfter |-> Slice(doc, e, Min(Len(doc), e + 100)),
   elementPath |-> elementPath]

\* selections with malformed offsets, as a client can hand them over: the
\* first character of the document "ab" with startOffset = endOffset,
\* startOffset > endOffset and a negative startOffset
Malformed(doc) ==
  IF doc # <<97, 98>> THEN {}
  ELSE {[selectedText |-> Slice(doc, 0, 1),
         startOffset |-> se[1],
         endOffset |-> se[2],
         contextBefore |-> << >>,
         contextAfter |-> Slice(doc, 1, Len(doc)),
         elementPath |-> FALSE] : se \in {<<1, 1>>, <<2, 1>>, <<0 - 1, 1>>}}

\* the spans selected in a document
Spans(doc) ==
  IF doc = ExampleDoc THEN {<<4, 6>>}
  \* the long span, and a third of the document with more than 50
  \* characters on either side
  ELSE IF doc = LongDoc THEN {<<1, 152>>, <<51, 102>>}
  \* aa, bb, and the whole document, whose locator has two empty contexts
  ELSE IF doc = PairDoc THEN {<<0, 2>>, <<3, 5>>, <<0, 6>>}
  ELSE IF doc = RoundingDoc THEN {<<1, 5>>}
  ELSE IF doc = DigestDoc THEN {<<4, 15>>}
  ELSE {se \in (0..Len(doc)) \X (0..Len(doc)) : se[1] < se[2]}

\* the documents a stored locator is later resolved against.  A short
\* document: itself, one character put in front, its first or its last
\* character removed, and itself twice on two lines.  The example document:
\* k filler characters put in front, and a text that keeps nothing of it.
\* The long document: one letter put in after its first character.  The
\* document with two annotations: itself and one filler character put in front.
\* The document ending in punctuation, besides: a line break put in.  The
\* document (abcd): xxxxx(ab  cd)abcd.  The document ab, 0y  zz   ww:
\* xxab, 0|y z,z w,w, where the window 0|y z,z w,w has three words of more
\* than two characters, the first of them with a | after the digest.
Edits(doc) ==
  IF doc = ExampleDoc
  THEN {Filler(k) \o doc : k \in 0..MaxShift} \cup {Filler(MaxLen)}
  ELSE IF doc = LongDoc
  THEN {doc, <<doc[1], 97>> \o Tail(doc)}
  ELSE IF doc = PairDoc
  THEN {doc, Filler(1) \o doc}
  ELSE IF doc = RoundingDoc
  THEN {Filler(5) \o <<40, 97, 98, 32, 32, 99, 100, 41, 97, 98, 99, 100>>}
  ELSE IF doc = DigestDoc
  THEN {Filler(2) \o <<97, 98, 44, 32, 48, 124, 121, 32, 122, 44, 122, 32,
                       119, 44, 119>>}
  ELSE {doc, Tail(doc), SubSeq(doc, 1, Len(doc) - 1), doc \o <<10>> \o doc}
         \cup {<<c>> \o doc : c \in Sigma}
         \cup (IF doc = ClauseDoc THEN {<<doc[1], 10>> \o Tail(doc)} ELSE {})

\* the caller's minConfidence: the default 0.7, a stricter 0.97, a laxer 0.3,
\* 0.99, which is more than the blend can reach, and 0.68, which lies
\* between two blends that differ by rounding only
MinConfidences ==
  {Decimal[70], Decimal[97], Decimal[30], Decimal[99], Decimal[68]}

(***************************************************************************)
(* State                                                                   *)
(***************************************************************************)
VARIABLES
  pc,              \* where the call is: idle, findChapterId, findArticleId,
                   \* analyze, stored, loop, findMatches, execute, update,
                   \* after, updateBest, done
  document,        \* the document the selection was made in
  selection,       \* the SelectionData handed to calculatePosition
  partial,         \* the fields of calculatePosition's object literal
                   \* evaluated before its await
  structuralPath,  \* local result of StructuralAnalyzer.analyze
  position,        \* the AnnotationPosition (locator) calculatePosition returned
  textContent,     \* findAnnotationPosition's textContent
  minConfidence,   \* findAnnotationPosition's minConfidence
  next,            \* index in Strategies of the strategy the loop runs next
  strategiesUsed,  \* local strategiesUsed
  matches,         \* local matches
  errors,          \* local errors
  lastIndex,       \* lastIndex of the context pattern (findMatches)
  found,           \* local matches of findMatches
  pending,         \* what the promise the call awaits settles to
  currentMatch,    \* local currentMatch of the confident branch
  bestMatch,       \* local bestMatch of the code after the loop
  result,          \* the PositioningResult returned, Null until then
  peer             \* the frame of a second call suspended at an await, or Null

vars ==
  <<pc, document, selection, partial, structuralPath, position, textContent,
    minConfidence, next, strategiesUsed, matches, errors, lastIndex, found,
    pending, currentMatch, bestMatch, result, peer>>

Init ==
  /\ pc = "idle"
  /\ document \in ShortDocs
                     \cup {ExampleDoc, LongDoc, ParenDoc, ClauseDoc, RoundingDoc,
                           DigestDoc}
  /\ selection \in {Capture(document, se[1], se[2], elementPath) :
                      se \in Spans(document), elementPath \in BOOLEAN}
                     \cup Malformed(document)
  /\ partial = Null
  /\ structuralPath = Null
  /\ position = Null
  /\ textContent = << >>
  /\ minConfidence = Zero
  /\ next = 1
  /\ strategiesUsed = << >>
  /\ matches = << >>
  /\ errors = << >>
  /\ lastIndex = 0
  /\ found = << >>
  /\ pending = Null
  /\ currentMatch = Null
  /\ bestMatch = Null
  /\ result = Null
  /\ peer = Null

(***************************************************************************)
(* calculatePosition(textId, selectionData)                                *)
(***************************************************************************)
\* the call up to its first suspension: primary and context of the object
\* literal are evaluated, analyze is called, builds its result and calls
\* findChapterId, whose promise it awaits (part_012 line 286)
CalculatePosition ==
  /\ pc = "idle"
  /\ \E literal \in {calculatePosition(selection)} :
       partial' = [primary |-> literal.primary, context |-> literal.context]
  /\ structuralPath' =
       [paragraphIndex |-> <<calculateParagraphIndex(selection.startOffset)>>,
        elementPath |-> selection.elementPath]
  /\ pending' = findChapterId(selection.startOffset)
  /\ pc' = "findChapterId"
  /\ UNCHANGED <<document, selection, position, textContent, minConfidence, next,
                 strategiesUsed, matches, errors, lastIndex, found,
                 currentMatch, bestMatch, result, peer>>

\* analyze resumed with the chapter: it is stored and findArticleId is called
\* and awaited (line 289)
AnalyzeChapter ==
  /\ pc = "findChapterId"
  /\ structuralPath' = [paragraphIndex |-> structuralPath.paragraphIndex,
                    elementPath |-> structuralPath.elementPath,
                    chapterId |-> pending]
  /\ pending' = findArticleId(selection.startOffset)
  /\ pc' = "findArticleId"
  /\ UNCHANGED <<document, selection, partial, position, textContent,
                 minConfidence, next, strategiesUsed, matches, errors, lastIndex,
                 found, currentMatch, bestMatch, result, peer>>

\* analyze resumed with the article: it is stored and analyze returns its
\* result, on which calculatePosition waits (part_011 line 49)
AnalyzeArticle ==
  /\ pc = "findArticleId"
  /\ structuralPath' = [paragraphIndex |-> structuralPath.paragraphIndex,
                    elementPath |-> structuralPath.elementPath,
                    chapterId |-> structuralPath.chapterId,
                    articleId |-> pending]
  /\ pending' = structuralPath'
  /\ pc' = "analyze"
  /\ UNCHANGED <<document, selection, partial, position, textContent,
                 minConfidence, next, strategiesUsed, matches, errors, lastIndex,
                 found, currentMatch, bestMatch, result, peer>>

\* calculatePosition resumed with the structural path: fingerprint and
\* metadata are evaluated and the locator is returned
CalculatePositionReturns ==
  /\ pc = "analyze"
  /\ \E literal \in {calculatePosition(selection)} :
       position' = [primary |-> partial.primary,
                    context |-> partial.context,
                    structural |-> pending,
                    fingerprint |-> literal.fingerprint,
                    metadata |-> literal.metadata]
  /\ pending' = Null
  /\ pc' = "stored"
  /\ UNCHANGED <<document, selection, partial, structuralPath, textContent,
                 minConfidence, next, strategiesUsed, matches, errors, lastIndex,
                 found, currentMatch, bestMatch, result, peer>>

(***************************************************************************)
(* findAnnotationPosition(textContent, position, minConfidence)            *)
(***************************************************************************)
\* the call: the locals are initialised and the loop is entered
FindAnnotationPosition ==
  /\ pc = "stored"
  /\ textContent' \in Edits(document)
  /\ minConfidence' \in MinConfidences
  /\ next' = 1
  /\ strategiesUsed' = << >>
  /\ matches' = << >>
  /\ errors' = << >>
  /\ pc' = "loop"
  /\ UNCHANGED <<document, selection, partial, structuralPath, position, lastIndex,
                 found, pending, currentMatch, bestMatch, result, peer>>

\* the metadata with the zero-based index of the last strategy as the count
Metadata_IndexAsCount(used, confidence) ==
  [totalAttempts |-> Len(used) - 1,
   strategiesUsed |-> used,
   confidence |-> confidence]

Metadata(used, confidence) ==
  [totalAttempts |-> Len(used), strategiesUsed |-> used, confidence |-> confidence]

\* strategiesUsed.push(strategy.method) and strategy.execute() (lines 102-103):
\* the strategy runs to its end and the loop awaits the promise it returned
Execute(method, range) ==
  /\ strategiesUsed' = Append(strategiesUsed, method)
  /\ pending' = range
  /\ pc' = "execute"
  /\ UNCHANGED <<document, selection, partial, structuralPath, position, textContent,
                 minConfidence, next, matches, errors, lastIndex, found,
                 currentMatch, bestMatch, result, peer>>

TryPrimaryPosition ==
  /\ pc = "loop"
  /\ Strategies[next] = "primary_position"
  /\ Execute("primary_position", findByPrimaryPosition(textContent, position))

\* findByContextMatch up to the first pattern.exec of findMatches
TryContextMatch ==
  /\ pc = "loop"
  /\ Strategies[next] = "context_match"
  /\ strategiesUsed' = Append(strategiesUsed, "context_match")
  /\ lastIndex' = 0
  /\ found' = << >>
  /\ pc' = "findMatches"
  /\ UNCHANGED <<document, selection, partial, structuralPath, position, textContent,
                 minConfidence, next, matches, errors, pending, currentMatch,
                 bestMatch, result, peer>>

\* one turn of while ((match = pattern.exec(text)) !== null): a match is pushed
\* and lastIndex moves to its end.  A turn that moves lastIndex is never held
\* back; a turn that leaves it where it was meets the same text at the same
\* lastIndex again, and only the first MaxScan of the pushes are recorded
FindMatchesStep ==
  /\ pc = "findMatches"
  /\ \E m \in {Exec(buildContextPattern(position.context), textContent,
                     lastIndex)} :
         /\ m.found
         /\ ~(m.end <= lastIndex /\ Len(found) >= MaxScan)
         /\ found' = Append(found, TextMatch(textContent, m.index, m.end))
         /\ lastIndex' = m.end
  /\ UNCHANGED <<pc, document, selection, partial, structuralPath, position,
                 textContent, minConfidence, next, strategiesUsed, matches,
                 errors, pending, currentMatch, bestMatch, result, peer>>

\* pattern.exec returns null: findMatches returns, findByContextMatch picks
\* its range and returns, and the loop awaits its promise
ContextMatchReturns ==
  /\ pc = "findMatches"
  /\ ~Exec(buildContextPattern(position.context), textContent,
           lastIndex).found
  /\ pending' = contextMatchResult(textContent, found, position)
  /\ lastIndex' = 0
  /\ pc' = "execute"
  /\ UNCHANGED <<document, selection, partial, structuralPath, position, textContent,
                 minConfidence, next, strategiesUsed, matches, errors, found,
                 currentMatch, bestMatch, result, peer>>

TryTextFingerprint ==
  /\ pc = "loop"
  /\ Strategies[next] = "text_fingerprint"
  /\ Execute("text_fingerprint", findByTextFingerprint(textContent, position))

TryStructuralPath ==
  /\ pc = "loop"
  /\ Strategies[next] = "structural_path"
  /\ Execute("structural_path", PS_findByStructuralPath(textContent, position))

TryFuzzyMatch ==
  /\ pc = "loop"
  /\ Strategies[next] = "fuzzy_match"
  /\ Execute("fuzzy_match", findByFuzzyMatch(textContent, position))

\* the loop body without the return on a confident match
Handle_NoShortCircuit ==
  /\ pc = "execute"
  /\ \E method \in {strategiesUsed[Len(strategiesUsed)]}, found_range \in {pending} :
       LET valid == found_range # Null /\ validatePosition(found_range, position)
       IN  \E confidence \in {IF valid
                               THEN calculateMatchConfidence(found_range, position)
                               ELSE Zero} :
             LET match == AnnotationMatch(found_range, confidence, method)
             IN  /\ matches' = IF valid THEN Append(matches, match) ELSE matches
                 /\ pending' = Null
                 /\ pc' = IF next = Len(Strategies) THEN "after" ELSE "loop"
                 /\ next' = next + 1
                 /\ UNCHANGED <<document, selection, partial, structuralPath, position,
                                textContent, minConfidence, strategiesUsed, errors,
                                lastIndex, found, currentMatch, bestMatch, result,
                                peer>>

\* the loop body returning on any valid match, confident or not
Handle_AnyValidReturns ==
  /\ pc = "execute"
  /\ \E method \in {strategiesUsed[Len(strategiesUsed)]}, found_range \in {pending} :
       LET valid == found_range # Null /\ validatePosition(found_range, position)
       IN  \E confidence \in {IF valid
                               THEN calculateMatchConfidence(found_range, position)
                               ELSE Zero} :
             LET match == AnnotationMatch(found_range, confidence, method)
             IN  /\ matches' = IF valid THEN Append(matches, match) ELSE matches
                 /\ IF valid
                    THEN /\ currentMatch' = match
                         /\ pending' = updatePosition(position, found_range)
                         /\ pc' = "update"
                         /\ next' = next
                    ELSE /\ currentMatch' = currentMatch
                         /\ pending' = Null
                         /\ pc' = IF next = Len(Strategies) THEN "after" ELSE "loop"
                         /\ next' = next + 1
                 /\ UNCHANGED <<document, selection, partial, structuralPath, position,
                                textContent, minConfidence, strategiesUsed, errors,
                                lastIndex, found, bestMatch, result, peer>>

\* the loop body resumed with what strategy.execute() settled to (lines
\* 103-138): validate, score, record; on a confident match updatePosition is
\* called and awaited (line 123) before anything is returned
Handle ==
  /\ pc = "execute"
  /\ \E method \in {strategiesUsed[Len(strategiesUsed)]}, found_range \in {pending} :
       LET thrown == "thrown" \in DOMAIN found_range
           valid == /\ ~thrown
                    /\ found_range # Null
                    /\ validatePosition(found_range, position)
       IN  \E confidence \in {IF valid
                               THEN calculateMatchConfidence(found_range, position)
                               ELSE Zero} :
             LET match == AnnotationMatch(found_range, confidence, method)
             IN  /\ matches' = IF valid THEN Append(matches, match) ELSE matches
                 \* catch (error): errors.push(`${strategy.method}: ${errorMessage}`)
                 /\ errors' = IF thrown
                              THEN Append(errors, [method |-> method,
                                              message |-> found_range.thrown])
                              ELSE errors
                 /\ IF valid /\ RLe(minConfidence, confidence)
                    THEN \* currentMatch = matches[matches.length - 1]
                         /\ currentMatch' = matches'[Len(matches')]
                         /\ pending' = updatePosition(position, found_range)
                         /\ pc' = "update"
                         /\ next' = next
                    ELSE /\ currentMatch' = currentMatch
                         /\ pending' = Null
                         /\ pc' = IF next = Len(Strategies) THEN "after" ELSE "loop"
                         /\ next' = next + 1
                 /\ UNCHANGED <<document, selection, partial, structuralPath, position,
                                textContent, minConfidence, strategiesUsed,
                                lastIndex, found, bestMatch, result, peer>>

\* the confident branch resumed with the updated locator: the rest of the
\* result is evaluated and returned (lines 121-131)
ReturnMatch ==
  /\ pc = "update"
  /\ result' = [success |-> TRUE,
                position |-> pending,
                matches |-> <<currentMatch>>,
                metadata |-> Metadata(strategiesUsed, currentMatch.confidence)]
  /\ pending' = Null
  /\ pc' = "done"
  /\ UNCHANGED <<document, selection, partial, structuralPath, position, textContent,
                 minConfidence, next, strategiesUsed, matches, errors, lastIndex,
                 found, currentMatch, bestMatch, peer>>

\* the failure result handing back the stored locator
allStrategiesFailed_StalePosition(ms, errs, used) ==
  [success |-> FALSE,
   position |-> position,
   matches |-> ms,
   errors |-> errs,
   metadata |-> Metadata(used, Zero)]

\* the failure result (lines 162-173); it has no position
allStrategiesFailed(ms, errs, used) ==
  [success |-> FALSE,
   matches |-> ms,
   errors |-> errs,
   metadata |-> Metadata(used, Zero)]

\* after the loop (lines 141-173): if the best recorded match reaches 0.5,
\* updatePosition is called and awaited (line 150); failure otherwise
AfterLoop ==
  /\ pc = "after"
  /\ IF Len(matches) > 0 /\ RLe(Decimal[50], bestMatchOf(matches).confidence)
     THEN /\ bestMatch' = bestMatchOf(matches)
          /\ pending' = updatePosition(position, bestMatchOf(matches).range)
          /\ result' = result
          /\ pc' = "updateBest"
     ELSE /\ bestMatch' = IF Len(matches) > 0 THEN bestMatchOf(matches)
                          ELSE bestMatch
          /\ pending' = pending
          /\ result' = allStrategiesFailed(matches, errors, strategiesUsed)
          /\ pc' = "done"
  /\ UNCHANGED <<document, selection, partial, structuralPath, position, textContent,
                 minConfidence, next, strategiesUsed, matches, errors, lastIndex,
                 found, currentMatch, peer>>

\* the fallback resumed with the updated locator: the rest of the result is
\* evaluated and returned (lines 148-158)
ReturnBest ==
  /\ pc = "updateBest"
  /\ result' = [success |-> TRUE,
                position |-> pending,
                matches |-> matches,
                metadata |-> Metadata(strategiesUsed, bestMatch.confidence)]
  /\ pending' = Null
  /\ pc' = "done"
  /\ UNCHANGED <<document, selection, partial, structuralPath, position, textContent,
                 minConfidence, next, strategiesUsed, matches, errors, lastIndex,
                 found, currentMatch, bestMatch, peer>>

Next ==
  \/ CalculatePosition
  \/ AnalyzeChapter
  \/ AnalyzeArticle
  \/ CalculatePositionReturns
  \/ FindAnnotationPosition
  \/ TryPrimaryPosition
  \/ TryContextMatch
  \/ FindMatchesStep
  \/ ContextMatchReturns
  \/ TryTextFingerprint
  \/ TryStructuralPath
  \/ TryFuzzyMatch
  \/ Handle
  \/ ReturnMatch
  \/ AfterLoop
  \/ ReturnBest

Spec == Init /\ [][Next]_vars

(***************************************************************************)
(* What the strategies of the current call return, computed again          *)
(***************************************************************************)
\* strategy.execute() of the strategy named method; the context search is
\* taken from the list findMatches has collected
StrategyRange(method) ==
  CASE method = "primary_position" -> findByPrimaryPosition(textContent, position)
    [] method = "context_match" -> contextMatchResult(textContent, found, position)
    [] method = "text_fingerprint" -> findByTextFingerprint(textContent, position)
    [] method = "structural_path" -> PS_findByStructuralPath(textContent, position)
    [] method = "fuzzy_match" -> findByFuzzyMatch(textContent, position)

\* the strategies whose turn of the loop is over
Completed ==
  IF pc \in {"findMatches", "execute"}
  THEN SubSeq(strategiesUsed, 1, Len(strategiesUsed) - 1)
  ELSE strategiesUsed

\* the candidate of a completed strategy as the loop records it, Null when
\* the strategy returned null or validatePosition turned its range down
Candidate(method) ==
  LET range == StrategyRange(method)
  IN  IF range # Null /\ validatePosition(range, position)
      THEN AnnotationMatch(range, calculateMatchConfidence(range, position), method)
      ELSE Null

IsCandidate(m) == m # Null

\* the valid candidates of the completed strategies, in cascade order
ValidCandidates ==
  IF Len(Completed) = 0 THEN << >>
  ELSE SelectSeq([i \in 1..Len(Completed) |-> Candidate(Completed[i])], IsCandidate)

Returned == pc = "done"

\* calculatePosition has returned the locator
Stored == pc \notin {"idle", "findChapterId", "findArticleId", "analyze"}

Running ==
  pc \in {"loop", "findMatches", "execute", "update", "after", "updateBest"}

\* the cascade as the specification lists it
CascadeOrder ==
  <<"primary_position", "context_match", "text_fingerprint",
    "structural_path", "fuzzy_match">>

(***************************************************************************)
(* Two calls on one PositionService.  A call runs until it suspends at an  *)
(* await; its parameters and locals stay in its frame while the other call *)
(* runs.  The service itself has no field that a call writes.              *)
(***************************************************************************)
\* the frame of the running call: the parameters and locals of
\* calculatePosition / findAnnotationPosition and the pattern of findMatches
Frame ==
  [pc |-> pc, selection |-> selection, partial |-> partial,
   structuralPath |-> structuralPath, position |-> position,
   textContent |-> textContent, minConfidence |-> minConfidence, next |-> next,
   strategiesUsed |-> strategiesUsed, matches |-> matches, errors |-> errors,
   lastIndex |-> lastIndex, found |-> found, pending |-> pending,
   currentMatch |-> currentMatch, bestMatch |-> bestMatch, result |-> result]

\* where a call can be when the other one runs: not yet made, suspended at
\* an await (of findChapterId, findArticleId, analyze, strategy.execute() or
\* updatePosition), or returned; never in the synchronous code between
AwaitPoints ==
  {"idle", "findChapterId", "findArticleId", "analyze", "stored", "execute",
   "update", "updateBest", "done"}

\* the running call suspends at an await and the other call is resumed
Switch ==
  /\ peer # Null
  /\ pc \in AwaitPoints
  /\ peer' = Frame
  /\ pc' = peer.pc
  /\ selection' = peer.selection
  /\ partial' = peer.partial
  /\ structuralPath' = peer.structuralPath
  /\ position' = peer.position
  /\ textContent' = peer.textContent
  /\ minConfidence' = peer.minConfidence
  /\ next' = peer.next
  /\ strategiesUsed' = peer.strategiesUsed
  /\ matches' = peer.matches
  /\ errors' = peer.errors
  /\ lastIndex' = peer.lastIndex
  /\ found' = peer.found
  /\ pending' = peer.pending
  /\ currentMatch' = peer.currentMatch
  /\ bestMatch' = peer.bestMatch
  /\ result' = peer.result
  /\ UNCHANGED document

PairInit ==
  /\ pc = "idle"
  /\ document = PairDoc
  /\ \E se \in Spans(document), elementPath \in BOOLEAN :
       selection = Capture(document, se[1], se[2], elementPath)
  \* the frame of a call not made yet
  /\ \E se \in Spans(document) :
       peer = [pc |-> "idle",
               selection |-> Capture(document, se[1], se[2], TRUE),
               partial |-> Null, structuralPath |-> Null, position |-> Null,
               textContent |-> << >>, minConfidence |-> Zero, next |-> 1,
               strategiesUsed |-> << >>, matches |-> << >>, errors |-> << >>,
               lastIndex |-> 0, found |-> << >>, pending |-> Null,
               currentMatch |-> Null, bestMatch |-> Null, result |-> Null]
  /\ partial = Null
  /\ structuralPath = Null
  /\ position = Null
  /\ textContent = << >>
  /\ minConfidence = Zero
  /\ next = 1
  /\ strategiesUsed = << >>
  /\ matches = << >>
  /\ errors = << >>
  /\ lastIndex = 0
  /\ found = << >>
  /\ pending = Null
  /\ currentMatch = Null
  /\ bestMatch = Null
  /\ result = Null

PairNext ==
  \/ Next
  \/ Switch

PairSpec == PairInit /\ [][PairNext]_vars

(***************************************************************************)
(* findAnnotationPosition run alone, as one computation from its           *)
(* parameters to its outcome: the result it returns, or NeverReturns       *)
(***************************************************************************)
\* the outcome of a call that does not return
NeverReturns == [returns |-> FALSE]

\* findMatches with the pattern's lastIndex at from: the list it returns.  A
\* match that ends where the search began leaves lastIndex where it was, so
\* that every later turn of the loop meets the same text at the same
\* lastIndex and pushes the same match: the loop has no exit then
RECURSIVE findMatches(_, _, _, _)
findMatches(regex, text, from, acc) ==
  LET m == Exec(regex, text, from)
  IN  IF ~m.found THEN [returns |-> TRUE, list |-> acc]
      ELSE IF m.end <= from THEN NeverReturns
      ELSE findMatches(regex, text, m.end,
                       Append(acc, TextMatch(text, m.index, m.end)))

findByContextMatch(text, locator) ==
  LET contextPattern == buildContextPattern(locator.context)
      Located(all) ==
        IF all.returns THEN contextMatchResult(text, all.list, locator)
        ELSE NeverReturns
  IN  Located(findMatches(contextPattern, text, 0, << >>))

\* the result of findAnnotationPosition(text, locator, threshold)
RunAlone(text, locator, threshold) ==
  LET \* strategy.execute() of the strategy named method
      execute(method) ==
        CASE method = "primary_position" -> findByPrimaryPosition(text, locator)
          [] method = "context_match" -> findByContextMatch(text, locator)
          [] method = "text_fingerprint" -> findByTextFingerprint(text, locator)
          [] method = "structural_path" -> PS_findByStructuralPath(text, locator)
          [] method = "fuzzy_match" -> findByFuzzyMatch(text, locator)
      \* the code after the loop
      After(ms, errs) ==
        IF Len(ms) > 0 /\ RLe(Decimal[50], bestMatchOf(ms).confidence)
        THEN [success |-> TRUE,
              position |-> updatePosition(locator, bestMatchOf(ms).range),
              matches |-> ms,
              metadata |-> Metadata(Strategies, bestMatchOf(ms).confidence)]
        ELSE allStrategiesFailed(ms, errs, Strategies)
      \* the loop from its turn i on, with the locals matches and errors
      RECURSIVE Loop(_, _, _)
      Loop(i, ms, errs) ==
        IF i > Len(Strategies) THEN After(ms, errs)
        ELSE LET method == Strategies[i]
                 Scored(confidence, range) ==
                   IF RLe(threshold, confidence)
                   THEN [success |-> TRUE,
                         position |-> updatePosition(locator, range),
                         matches |-> <<AnnotationMatch(range, confidence, method)>>,
                         metadata |-> Metadata(SubSeq(Strategies, 1, i),
                                               confidence)]
                   ELSE Loop(i + 1,
                             Append(ms, AnnotationMatch(range, confidence, method)),
                             errs)
                 Turn(range) ==
                   IF "returns" \in DOMAIN range THEN NeverReturns
                   ELSE IF "thrown" \in DOMAIN range
                   THEN Loop(i + 1, ms,
                             Append(errs, [method |-> method,
                                           message |-> range.thrown]))
                   ELSE IF range # Null /\ validatePosition(range, locator)
                   THEN Scored(calculateMatchConfidence(range, locator), range)
                   ELSE Loop(i + 1, ms, errs)
             IN  Turn(execute(method))
  IN  Loop(1, << >>, << >>)

(***************************************************************************)
(* Claims                                                                  *)
(***************************************************************************)
\* C1: resolving a locator against the unchanged document with the default
\* minConfidence 0.7 returns success by primary_position with
\* metadata.confidence 1.0
C1_RoundTripConfidenceOne ==
  (Returned /\ textContent = document /\ minConfidence = Decimal[70])
    => /\ result.success
       /\ result.matches[1].method = "primary_position"
       /\ result.metadata.confidence = One

\* C2: the call returns and no scan runs forever: each turn of the loop of
\* findMatches, the one loop of the call whose end no counter decides, moves
\* lastIndex forward, so that the scan is over once lastIndex has passed the
\* end of the text
C2_ScanAdvances ==
  pc = "findMatches"
    => \A m \in {Exec(buildContextPattern(position.context), textContent,
                       lastIndex)} :
         m.found => m.end > lastIndex

\* C3: while the call runs and has not recorded a candidate that ends it, no
\* recorded candidate has reached minConfidence, and the recorded candidates
\* are the valid ones of the completed strategies; a call that returns
\* after a strategy has produced a valid
\* candidate of confidence >= minConfidence returns success with exactly that
\* candidate, its strategy is the last of metadata.strategiesUsed, and
\* metadata.confidence is the candidate's recomputed confidence
C3_ShortCircuit ==
  \A valid \in {ValidCandidates} :
    /\ (Running /\ pc # "update") =>
         /\ matches = valid
         /\ \A m \in SetOf(matches) : RLt(m.confidence, minConfidence)
    /\ (Returned /\ \E m \in SetOf(valid) : RLe(minConfidence, m.confidence))
         => \E first \in 1..Len(valid) :
              /\ RLe(minConfidence, valid[first].confidence)
              /\ \A j \in 1..(first - 1) :
                   RLt(valid[j].confidence, minConfidence)
              /\ result.success
              /\ result.matches = <<valid[first]>>
              /\ result.position = updatePosition(position, valid[first].range)
              /\ result.metadata.strategiesUsed[Len(result.metadata.strategiesUsed)]
                   = valid[first].method
              /\ result.metadata.confidence = valid[first].confidence
              /\ valid[first].confidence
                   = calculateMatchConfidence(valid[first].range, position)

\* a call has returned at once on a confident candidate of a strategy other
\* than the last of the cascade
C3_Witness ==
  /\ Returned
  /\ result.success
  /\ Len(result.metadata.strategiesUsed) \in 2..4
  /\ RLe(minConfidence, result.metadata.confidence)

\* C4: strategiesUsed is at every moment a prefix of the fixed cascade, one
\* entry for each strategy started whatever became of it, and in a returned
\* result it is a non-empty prefix
C4_CascadeOrder ==
  /\ Len(strategiesUsed) <= Len(CascadeOrder)
  /\ strategiesUsed = SubSeq(CascadeOrder, 1, Len(strategiesUsed))
  /\ pc = "loop" => Len(strategiesUsed) = next - 1
  /\ pc \in {"findMatches", "execute", "update"} => Len(strategiesUsed) = next
  /\ pc \in {"after", "updateBest"} => strategiesUsed = CascadeOrder
  /\ Returned =>
       /\ result.metadata.strategiesUsed = strategiesUsed
       /\ Len(strategiesUsed) >= 1
       /\ Len(result.matches) <= Len(strategiesUsed)

\* all five strategies were tried, some gave nothing that could be recorded,
\* and one gave a candidate
C4_Witness ==
  /\ Returned
  /\ result.metadata.strategiesUsed = CascadeOrder
  /\ Len(result.matches) \in 1..4

\* C5: when all five strategies have run, no valid candidate reached
\* minConfidence and one has confidence >= 0.5, the result is a success built
\* from the candidate of highest confidence, the earliest on a tie, with that
\* confidence as metadata.confidence and every valid candidate in matches
C5_LowConfidenceFallback ==
  \A valid \in {ValidCandidates} :
    (/\ Returned
     /\ Len(strategiesUsed) = 5
     /\ \A m \in SetOf(valid) : RLt(m.confidence, minConfidence)
     /\ \E m \in SetOf(valid) : RLe(Decimal[50], m.confidence))
      => \E top \in 1..Len(valid) :
           /\ \A j \in 1..Len(valid) :
                RLe(valid[j].confidence, valid[top].confidence)
           /\ \A j \in 1..(top - 1) :
                RLt(valid[j].confidence, valid[top].confidence)
           /\ result.success
           /\ result.position = updatePosition(position, valid[top].range)
           /\ result.metadata.confidence = valid[top].confidence
           /\ result.matches = valid

\* a fallback result whose best candidate ties with a later one that carries
\* another confidence of its own
C5_Witness ==
  /\ Returned
  /\ result.success
  /\ RLt(result.metadata.confidence, minConfidence)
  /\ \E i, j \in 1..Len(result.matches) :
       /\ i < j
       /\ result.matches[i].confidence = result.metadata.confidence
       /\ result.matches[j].confidence = result.metadata.confidence
       /\ result.matches[i].range # result.matches[j].range
       /\ result.position = updatePosition(position, result.matches[i].range)

\* C6: a call that returns with no valid candidate of confidence >= 0.5
\* returns success = false, no position, metadata.confidence 0 and at least
\* one attempt; a success always has metadata.confidence >= 0.5
C6_Unresolved ==
  Returned =>
    /\ (\A m \in SetOf(ValidCandidates) : RLt(m.confidence, Decimal[50]))
         => /\ ~result.success
            /\ "position" \notin DOMAIN result
            /\ result.metadata.confidence = Zero
            /\ result.metadata.totalAttempts >= 1
    /\ result.success => RLe(Decimal[50], result.metadata.confidence)

\* the selected text and its context are gone from the document and the call
\* has failed after trying every strategy
C6_Witness ==
  /\ Returned
  /\ document = ExampleDoc
  /\ textContent = Filler(MaxLen)
  /\ ~result.success
  /\ result.metadata.totalAttempts = 5

\* C7: a returned result is exactly one of Resolved, ResolvedLow and
\* Unresolved, and it has a position exactly when it is a success
C7_ThreeOutcomes ==
  Returned =>
    LET confidence == result.metadata.confidence
        allTried == result.metadata.strategiesUsed = CascadeOrder
        resolved == result.success /\ RLe(minConfidence, confidence)
        resolvedLow == /\ result.success
                       /\ RLe(Decimal[50], confidence)
                       /\ RLt(confidence, minConfidence)
                       /\ allTried
        unresolved == ~result.success /\ confidence = Zero /\ allTried
    IN  /\ resolved \/ resolvedLow \/ unresolved
        /\ ~(resolved /\ resolvedLow)
        /\ ~(resolved /\ unresolved)
        /\ ~(resolvedLow /\ unresolved)
        /\ ("position" \in DOMAIN result) <=> result.success

\* a call has ended ResolvedLow
C7_Witness ==
  /\ Returned
  /\ result.success
  /\ "position" \in DOMAIN result
  /\ RLt(result.metadata.confidence, minConfidence)
  /\ result.metadata.strategiesUsed = CascadeOrder

\* C8 as stated: whenever k characters that do not contain the selected text
\* are put in front of the document, the call returns success with the
\* start offset moved by k
C8_DriftAnyDocument ==
  \A k \in 1..MaxShift :
    (/\ Returned
     /\ Len(textContent) = Len(document) + k
     /\ SubSeq(textContent, k + 1, Len(textContent)) = document
     /\ IndexOf(SubSeq(textContent, 1, k), selection.selectedText) = 0 - 1)
      => /\ result.success
         /\ result.position.primary.startOffset = selection.startOffset + k

\* C8 amended: for the example document with [4,6) selected, k >= 1 filler
\* characters put in front leave a success whose position is the candidate of
\* context_match, offsets [4 + k, 6 + k) and the selected text unchanged
C8_DriftExample ==
  \A k \in 1..MaxShift :
    (Returned /\ document = ExampleDoc /\ textContent = Filler(k) \o ExampleDoc)
      => /\ result.success
         /\ result.position.primary =
              [startOffset |-> 4 + k, endOffset |-> 6 + k,
               selectedText |-> selection.selectedText]
         /\ \E i \in 1..Len(result.matches) :
              /\ result.matches[i].method = "context_match"
              /\ result.matches[i].confidence = result.metadata.confidence
              /\ result.position = updatePosition(position, result.matches[i].range)

\* ten characters were put in front of the example document and the call
\* has returned offsets [14, 16)
C8_Witness ==
  /\ Returned
  /\ document = ExampleDoc
  /\ textContent = Filler(10) \o ExampleDoc
  /\ minConfidence = Decimal[70]
  /\ result.success
  /\ result.position.primary.startOffset = 14
  /\ result.position.primary.endOffset = 16

\* C9: whenever the primary recheck gives a candidate that passes
\* validatePosition, the returned position is that candidate's
C9_PrimaryPreferred ==
  LET primary == findByPrimaryPosition(textContent, position)
  IN  (Returned /\ primary # Null /\ validatePosition(primary, position))
        => /\ result.success
           /\ result.position = updatePosition(position, primary)

\* C10: every recorded candidate has non-empty text, a length between half
\* and twice that of the stored selected text and a similarity to it of at
\* least 0.6; a strategy whose range fails this records nothing, and the call
\* does not end on it before the last strategy
C10_ValidationBounds ==
  LET Within(range) ==
        LET length == Len(range.text)
            originalLength == Len(position.primary.selectedText)
        IN  /\ length > 0
            /\ 2 * length >= originalLength
            /\ length <= 2 * originalLength
            /\ RLe(Decimal[60],
                   PS_calculateTextSimilarity(range.text,
                                              position.primary.selectedText))
  IN  /\ \A m \in SetOf(matches) : Within(m.range)
      /\ Returned => \A m \in SetOf(result.matches) : Within(m.range)
      /\ ((Running \/ Returned) /\ Len(Completed) > 0)
           => \A lastRange \in {StrategyRange(Completed[Len(Completed)])} :
                (lastRange # Null /\ ~Within(lastRange))
                  => /\ \A m \in SetOf(matches) : m.range # lastRange
                     /\ Returned => Len(strategiesUsed) = 5

\* a strategy returned a range that validation turned down and the cascade
\* went on to the next strategy
C10_Witness ==
  /\ pc = "loop"
  /\ Len(Completed) > 0
  /\ StrategyRange(Completed[Len(Completed)]) # Null
  /\ ~validatePosition(StrategyRange(Completed[Len(Completed)]), position)
  /\ next = Len(strategiesUsed) + 1

\* C11: the locator handed to findAnnotationPosition stays what
\* calculatePosition made of the selection for the whole call, and the
\* position of a successful result has the locator's context, fingerprint,
\* structural, metadata.createdAt and metadata.textLength; it differs from the
\* locator in primary and metadata.confidence at most
C11_Frame ==
  \A locator \in {IF Stored THEN calculatePosition(selection) ELSE Null} :
    /\ position = locator
    /\ (Returned /\ result.success) =>
         /\ DOMAIN result.position = DOMAIN locator
         /\ result.position.context = locator.context
         /\ result.position.fingerprint = locator.fingerprint
         /\ result.position.structural = locator.structural
         /\ DOMAIN result.position.metadata = DOMAIN locator.metadata
         /\ result.position.metadata.createdAt = locator.metadata.createdAt
         /\ result.position.metadata.textLength = locator.metadata.textLength
         /\ [result.position EXCEPT !.primary = locator.primary,
                                    !.metadata.confidence = locator.metadata.confidence]
              = locator

\* a success has moved the span and changed its text and the confidence
C11_Witness ==
  /\ Returned
  /\ result.success
  /\ result.position.primary.startOffset # position.primary.startOffset
  /\ result.position.primary.selectedText # position.primary.selectedText
  /\ result.position.metadata.confidence # position.metadata.confidence

\* new RegExp(searchPattern, 'gi') of findByFuzzyMatch throws for the stored
\* selected text, and the call has run fuzzy_match
FuzzyRegexFailed ==
  /\ pc \in {"update", "after", "updateBest", "done"}
  /\ Len(strategiesUsed) = 5
  /\ ~RegExpCompile(fuzzySearchPattern(position.primary.selectedText)).ok

\* C12 as stated: once fuzzy_match has run with a selected text whose search
\* pattern cannot be compiled, errors holds a diagnostic of fuzzy_match, and
\* a failed result carries it
C12_ErrorsRecorded ==
  FuzzyRegexFailed =>
    /\ \E i \in 1..Len(errors) : errors[i].method = "fuzzy_match"
    /\ (Returned /\ ~result.success) =>
         \E i \in 1..Len(result.errors) : result.errors[i].method = "fuzzy_match"

\* C12 amended: when the search pattern of fuzzy_match cannot be compiled the
\* error stays inside findByFuzzyMatch: nothing is pushed to errors, the
\* strategy's range is that of the normalised-substring search, which is
\* recorded if it is valid, fuzzy_match is the last of strategiesUsed, and the
\* result returned is a success without errors or a failure whose errors is
\* empty
C12_FuzzyErrorSwallowed ==
  FuzzyRegexFailed =>
    \A fallback \in {findBestSubstringMatch(textContent,
                                            position.primary.selectedText)} :
      /\ errors = << >>
      /\ strategiesUsed[5] = "fuzzy_match"
      /\ (fallback # Null /\ validatePosition(fallback, position))
           <=> \E m \in SetOf(matches) :
                 m.method = "fuzzy_match" /\ m.range = fallback
      /\ Returned =>
           /\ result.metadata.totalAttempts = 5
           /\ result.success => "errors" \notin DOMAIN result
           /\ ~result.success => result.errors = << >>

\* the pattern of fuzzy_match did not compile, the substring search found
\* nothing either, and the call has returned a failure
C12_Witness ==
  /\ FuzzyRegexFailed
  /\ Returned
  /\ ~result.success
  /\ findBestSubstringMatch(textContent, position.primary.selectedText) = Null

\* C13: in every interleaving of two calls on one service each call has the
\* outcome that findAnnotationPosition has for the call's own textContent,
\* locator and minConfidence when run alone.  A call that has returned, the
\* running one or the suspended one, has the result (success, position,
\* matches, strategiesUsed, totalAttempts, confidence, errors) of the call
\* run alone, so that two calls with the same parameters have the same
\* result; and when the running call is in a scan that has stopped moving,
\* which ends at no await, a call suspended at an await of
\* findAnnotationPosition, which is not resumed any more, is one that does
\* not return when run alone either
C13_Independent ==
  /\ Returned =>
       /\ position = calculatePosition(selection)
       /\ result = RunAlone(textContent, position, minConfidence)
  /\ (peer # Null /\ peer.pc = "done") =>
       /\ peer.position = calculatePosition(peer.selection)
       /\ peer.result = RunAlone(peer.textContent, peer.position,
                                 peer.minConfidence)
  /\ (/\ pc = "findMatches"
      /\ peer # Null
      /\ peer.pc \in {"execute", "update", "updateBest"})
       => \A m \in {Exec(buildContextPattern(position.context), textContent,
                         lastIndex)} :
            (m.found /\ m.end <= lastIndex)
              => RunAlone(peer.textContent, peer.position, peer.minConfidence)
                   = NeverReturns

\* C14: the position of a successful result is a well-formed span of the
\* document the call was given: 0 <= startOffset < endOffset <=
\* len(textContent), primary.selectedText is the document's slice at these
\* offsets, and its length is endOffset - startOffset
C14_WellFormedSpan ==
  (Returned /\ result.success) =>
    LET primary == result.position.primary
    IN  /\ 0 <= primary.startOffset
        /\ primary.startOffset < primary.endOffset
        /\ primary.endOffset <= Len(textContent)
        /\ primary.selectedText
             = Slice(textContent, primary.startOffset, primary.endOffset)
        /\ Len(primary.selectedText) = primary.endOffset - primary.startOffset

\* C15: the locator calculatePosition returns has the selection's
\* startOffset, endOffset and selectedText as primary, the last
\* min(50, len) characters of contextBefore as context.before, the first
\* min(50, len) characters of contextAfter as context.after, and as
\* context.hash the hash of the whole of contextBefore + selectedText +
\* contextAfter
C15_CalculatePositionCopies ==
  Stored =>
    LET before == selection.contextBefore
        after == selection.contextAfter
        keptBefore == Min(50, Len(before))
        keptAfter == Min(50, Len(after))
    IN  /\ position # Null
        /\ position.primary = [startOffset |-> selection.startOffset,
                               endOffset |-> selection.endOffset,
                               selectedText |-> selection.selectedText]
        /\ position.context.before
             = SubSeq(before, Len(before) - keptBefore + 1, Len(before))
        /\ position.context.after = SubSeq(after, 1, keptAfter)
        /\ Len(position.context.before) <= 50
        /\ Len(position.context.after) <= 50
        /\ position.context.hash
             = sha256(before \o selection.selectedText \o after)

\* a locator was made from a selection with more than 50 characters of
\* context on either side
C15_Witness ==
  /\ pc = "stored"
  /\ Len(selection.contextBefore) > 50
  /\ Len(selection.contextAfter) > 50
  /\ Len(position.context.before) = 50
  /\ Len(position.context.after) = 50

\* C16: metadata.confidence of the locator calculatePosition returns is
\* min(1, 0.5 + 0.1 [len(selectedText) > 10] + 0.1 [len(selectedText) > 50]
\* + 0.1 [len(contextBefore) > 20] + 0.1 [len(contextAfter) > 20]
\* + 0.2 [elementPath supplied]); it lies in [0.5, 1] and is 1 when all five
\* signals are present
C16_CreationConfidence ==
  Stored =>
    LET Signal(cond, weight) == IF cond THEN weight ELSE Zero
        signals == <<Len(selection.selectedText) > 10,
                     Len(selection.selectedText) > 50,
                     Len(selection.contextBefore) > 20,
                     Len(selection.contextAfter) > 20,
                     selection.elementPath>>
        sum == RAdd(RAdd(RAdd(RAdd(RAdd(Decimal[50],
                                        Signal(signals[1], Decimal[10])),
                                   Signal(signals[2], Decimal[10])),
                              Signal(signals[3], Decimal[10])),
                         Signal(signals[4], Decimal[10])),
                    Signal(signals[5], Decimal[20]))
        confidence == position.metadata.confidence
    IN  /\ confidence = RMin(One, sum)
        /\ RLe(Decimal[50], confidence)
        /\ RLe(confidence, One)
        /\ (\A k \in 1..5 : signals[k]) => confidence = One

\* a locator was made from a selection with all five signals, whose sum 1.1
\* is capped
C16_Witness ==
  /\ pc = "stored"
  /\ Len(selection.selectedText) > 50
  /\ Len(selection.contextBefore) > 20
  /\ Len(selection.contextAfter) > 20
  /\ selection.elementPath
  /\ position.metadata.confidence = One

\* C18: the confidence of every recorded or returned AnnotationMatch lies in
\* [0, 1] and is 0.4 textSimilarity + 0.3 positionAccuracy
\* + 0.2 lengthConsistency + 0.1 * 0.8 against the stored primary span, with
\* positionAccuracy the mean of the start and end accuracies
\* max(0, 1 - offsetDiff / max(0.1 spanLength, 10)) and lengthConsistency
\* min(len) / max(len); it is not taken from the confidence the strategy gave
\* its range
C18_ConfidenceBlend ==
  LET stored == position.primary
      \* max(0, 1 - diff / max(0.1 spanLength, 10))
      Accuracy(diff) ==
        LET spanLength == Rat(stored.endOffset - stored.startOffset, 1)
            allowed == RMax(RMul(Decimal[10], spanLength), Rat(10, 1))
        IN  RMax(Zero, RSub(One, RDiv(Rat(diff, 1), allowed)))
      Blend(range) ==
        LET textSimilarity ==
              PS_calculateTextSimilarity(range.text, stored.selectedText)
            positionAccuracy ==
              RDiv(RAdd(Accuracy(Abs(range.startOffset - stored.startOffset)),
                        Accuracy(Abs(range.endOffset - stored.endOffset))),
                   Rat(2, 1))
            lengthConsistency ==
              Rat(Min(Len(range.text), Len(stored.selectedText)),
                  Max(Len(range.text), Len(stored.selectedText)))
        IN  RAdd(RAdd(RAdd(RMul(Decimal[40], textSimilarity),
                           RMul(Decimal[30], positionAccuracy)),
                      RMul(Decimal[20], lengthConsistency)),
                 RMul(Decimal[10], Decimal[80]))
  IN  \A m \in SetOf(matches)
                 \cup (IF Returned THEN SetOf(result.matches) ELSE {}) :
        \A blend \in {Blend(m.range)} :
          /\ m.confidence = blend
          /\ RLe(Zero, m.confidence)
          /\ RLe(m.confidence, One)

\* a returned match whose confidence is the blend and not the confidence of
\* its range: a candidate away from the stored offsets whose text is not the
\* stored text
C18_Witness ==
  /\ Returned
  /\ \E m \in SetOf(result.matches) :
       /\ m.confidence # m.range.confidence
       /\ m.range.startOffset # position.primary.startOffset
       /\ m.range.text # position.primary.selectedText

\* C19: once the primary recheck has run, its range has the stored offsets
\* with confidence 1.0 exactly when the offsets are valid
\* (0 <= startOffset < endOffset <= len(textContent)) and the document's slice
\* is the stored selectedText; it has them with confidence 0.9 exactly when
\* the offsets are valid and the slice differs but is the same after
\* normalisation; it is null in every other case, and no error is recorded
C19_PrimaryRecheck ==
  Len(Completed) >= 1 =>
    \A range \in {StrategyRange("primary_position")} :
      LET stored == position.primary
          offsetsValid == /\ 0 <= stored.startOffset
                          /\ stored.startOffset < stored.endOffset
                          /\ stored.endOffset <= Len(textContent)
          slice == SubSeq(textContent, stored.startOffset + 1, stored.endOffset)
          exact == offsetsValid /\ slice = stored.selectedText
          normalised == /\ offsetsValid
                        /\ slice # stored.selectedText
                        /\ PS_normalizeText(slice)
                             = PS_normalizeText(stored.selectedText)
      IN  /\ "thrown" \notin DOMAIN range
          /\ errors = << >>
          /\ exact <=> (range # Null /\ range.confidence = One)
          /\ normalised <=> (range # Null /\ range.confidence = Decimal[90])
          /\ (~exact /\ ~normalised) <=> range = Null
          /\ range # Null =>
               /\ range.startOffset = stored.startOffset
               /\ range.endOffset = stored.endOffset
               /\ range.text = slice

\* the recheck has found a slice that differs from the stored text and is
\* the same after normalisation
C19_Witness ==
  /\ Len(Completed) >= 1
  /\ StrategyRange("primary_position") # Null
  /\ StrategyRange("primary_position").confidence = Decimal[90]
  /\ StrategyRange("primary_position").text # position.primary.selectedText

\* C20: once the structural-path strategy has run, its range is null without
\* a search only if the locator has neither elementPath nor paragraphIndex;
\* with paragraphIndex set to any value, 0 included, or elementPath set, it
\* is the range of the structural search over the document
C20_StructuralSkip ==
  Len(Completed) >= 4 =>
    LET structural == position.structural
        neither == ~structural.elementPath /\ structural.paragraphIndex = << >>
    IN  StrategyRange("structural_path")
          = (IF neither THEN Null
             ELSE SA_findByStructuralPath(textContent, position))

\* the occurrences of the stored before-context, a gap of 0..200 characters
\* and the stored after-context (letters compared without case) from offset
\* from on, left to right without overlap, each starting at the first
\* possible offset and taking the longest gap
RECURSIVE ContextOccurrences(_, _, _, _)
ContextOccurrences(text, context, from, acc) ==
  LET before == context.before
      after == context.after
      occursAt(i, g) ==
        /\ i + Len(before) + g + Len(after) <= Len(text)
        /\ \A k \in 1..Len(before) : Canon(text[i + k]) = Canon(before[k])
        /\ \A k \in 1..Len(after) :
             Canon(text[i + Len(before) + g + k]) = Canon(after[k])
      gaps(i) == {g \in 0..Min(200, Len(text) - i) : occursAt(i, g)}
      starts == {i \in from..Len(text) : gaps(i) # {}}
      i0 == CHOOSE i \in starts : \A j \in starts : i <= j
      g0 == CHOOSE g \in gaps(i0) : \A h \in gaps(i0) : g >= h
      end == i0 + Len(before) + g0 + Len(after)
  IN  IF starts = {} THEN acc
      ELSE IF end <= from THEN Append(acc, TextMatch(text, i0, end))
      ELSE ContextOccurrences(text, context, end,
                              Append(acc, TextMatch(text, i0, end)))

\* C21: once the context strategy has returned, its range is null if and
\* only if the document has no occurrence of the stored before-context, a
\* gap of 0..200 characters and the stored after-context; otherwise it is the
\* first exact occurrence of selectedText inside the occurrence of maximum
\* score 0.3*positionSimilarity + 0.4*textSimilarity + 0.3*lengthSimilarity
\* (the earliest on a tie, the only one unscored) with confidence 0.95, or
\* else that whole occurrence with confidence 0.7
C21_ContextMatch ==
  (pc # "findMatches" /\ Len(Completed) >= 2) =>
    \A occurrences \in {ContextOccurrences(textContent, position.context, 0, << >>)} :
      LET n == Len(occurrences)
          score(k) == calculateMatchScore(occurrences[k], position)
          best == IF n = 1 THEN 1
                  ELSE CHOOSE k \in 1..n :
                         /\ \A l \in 1..n : RLe(score(l), score(k))
                         /\ \A l \in 1..(k - 1) : RLt(score(l), score(k))
          window == occurrences[best]
          target == position.primary.selectedText
          exact == {i \in 0..(Len(window.text) - Len(target)) :
                      OccursAt(window.text, target, i)}
          first == window.startOffset
                     + (CHOOSE i \in exact : \A j \in exact : i <= j)
      IN  /\ (StrategyRange("context_match") = Null) <=> (n = 0)
          /\ n > 0 =>
                StrategyRange("context_match")
                  = (IF exact # {}
                     THEN TextRange(first, first + Len(target), target, Decimal[95])
                     ELSE TextRange(window.startOffset, window.endOffset,
                                    window.text, Decimal[70]))

\* Array.from(textContent.matchAll(regex)): the successive matches from
\* lastIndex from on; after an empty match lastIndex moves one code unit on
RECURSIVE matchAll(_, _, _, _)
matchAll(regex, text, from, acc) ==
  LET m == Exec(regex, text, from)
  IN  IF from > Len(text) \/ ~m.found THEN acc
      ELSE matchAll(regex, text, IF m.end = m.index THEN m.end + 1 ELSE m.end,
                    Append(acc, TextMatch(text, m.index, m.end)))

\* C22: once the fuzzy strategy has returned, its range is the first match
\* of the selectedText words joined by optional whitespace (compared without
\* case, in document order) whose text similarity to the stored text exceeds
\* 0.6, with that similarity as confidence; it is the range of the
\* normalized-substring search (confidence 0.8, or null) only if the pattern
\* does not compile or matches nowhere
C22_FuzzyFirstAbove ==
  Len(Completed) = 5 =>
    LET targetText == position.primary.selectedText
        regex == RegExpCompile(fuzzySearchPattern(targetText))
        all == matchAll(regex, textContent, 0, << >>)
        similarity(k) == TMA_calculateTextSimilarity(targetText, all[k].text)
        above == {k \in 1..Len(all) : RLt(Decimal[60], similarity(k))}
        first == CHOOSE k \in above : \A l \in above : k <= l
    IN  StrategyRange("fuzzy_match")
          = (IF ~regex.ok \/ Len(all) = 0
             THEN findBestSubstringMatch(textContent, targetText)
             ELSE IF above = {} THEN Null
             ELSE TextRange(all[first].startOffset, all[first].endOffset,
                            all[first].text, similarity(first)))

(***************************************************************************)
(* The strategies and the similarity functions called on their own, with   *)
(* locators as any client of the algorithms can hand them over             *)
(***************************************************************************)
\* an AnnotationPosition not made by calculatePosition
HandLocator(selectedText, startOffset, structural, fingerprint) ==
  [primary |-> [startOffset |-> startOffset,
                endOffset |-> startOffset + Len(selectedText),
                selectedText |-> selectedText],
   context |-> [before |-> << >>, after |-> << >>,
                hash |-> generateContextHash(<< >>, selectedText, << >>)],
   structural |-> structural,
   fingerprint |-> fingerprint,
   metadata |-> [createdAt |-> "client",
                 textLength |-> Len(selectedText),
                 confidence |-> Decimal[50]]]

\* "aaa bbb ccc ddd": four words of three letters, two word trigrams
FourWords == <<97, 97, 97, 32, 98, 98, 98, 32, 99, 99, 99, 32, 100, 100, 100>>

\* locators of the four words whose fingerprint is the digest calculatePosition
\* stores, and the trigram list itself
FingerprintLocators ==
  {HandLocator(FourWords, 0, analyze(0, Len(FourWords), FALSE), fp) :
     fp \in {PS_generateTextFingerprint(FourWords, << >>, << >>),
             TMA_generateTextFingerprint(FourWords)}}

\* documents for the fingerprint scan: the four words, or the four words
\* with a capital first letter or with another last word, after
\* 0..MaxLen + 2 filler characters, two of these in a row, and a document
\* shorter than the window
FingerprintTexts ==
  LET variants == {FourWords, [FourWords EXCEPT ![1] = 65],
                   [FourWords EXCEPT ![15] = 101]}
  IN  {Filler(k) \o v : k \in 0..(MaxLen + 2), v \in variants}
        \cup {v \o w : v, w \in variants}
        \cup {Filler(MaxLen)}

\* "ab"
TwoLetters == <<97, 98>>

\* locators of "ab" with paragraphIndex absent, 0 or 1, with and without
\* elementPath
StructuralLocators ==
  {HandLocator(TwoLetters, 0,
               [analyze(0, Len(TwoLetters), elementPath)
                  EXCEPT !.paragraphIndex = paragraphIndex],
               PS_generateTextFingerprint(TwoLetters, << >>, << >>)) :
     paragraphIndex \in {<< >>, <<0>>, <<1>>}, elementPath \in BOOLEAN}

\* documents for the structural search: "ab" at the offsets around the ends
\* of the windows of paragraph 0, [0, 600), and of paragraph 1, [200, 900);
\* "ab" twice around the start of the window of paragraph 1; no "ab" at all
StructuralTexts ==
  {Filler(k) \o TwoLetters \o Filler(1) :
     k \in {0, 199, 200, 598, 599, 898, 899}}
    \cup {Filler(199) \o TwoLetters \o Filler(1) \o TwoLetters}
    \cup {Filler(MaxLen)}

\* the longest text the similarity functions are compared on
MaxText == 3

\* the texts compared: a, space and full stop
Texts == UNION {[1..n -> {97, 32, 46}] : n \in 0..MaxText}

\* the calls made: a function, its document or candidate text, its locator
StrategyCalls ==
  [fn : {"findByTextFingerprint"}, text : FingerprintTexts,
   locator : FingerprintLocators]
    \cup [fn : {"findByStructuralPath"}, text : StructuralTexts,
          locator : StructuralLocators]
    \cup [fn : {"calculateTextSimilarity"}, text : Texts,
          locator : {HandLocator(t, 0, analyze(0, Len(t), FALSE),
                                 PS_generateTextFingerprint(t, << >>, << >>)) :
                       t \in Texts}]

StrategyInit ==
  /\ \E call \in StrategyCalls :
       /\ pc = call.fn
       /\ textContent = call.text
       /\ position = call.locator
  /\ document = << >>
  /\ selection = Null
  /\ partial = Null
  /\ structuralPath = Null
  /\ minConfidence = Zero
  /\ next = 1
  /\ strategiesUsed = << >>
  /\ matches = << >>
  /\ errors = << >>
  /\ lastIndex = 0
  /\ found = << >>
  /\ pending = Null
  /\ currentMatch = Null
  /\ bestMatch = Null
  /\ result = Null
  /\ peer = Null

\* TextMatchingAlgorithm.findByTextFingerprint(textContent, position)
CallFindByTextFingerprint ==
  /\ pc = "findByTextFingerprint"
  /\ result' = [call |-> pc, range |-> findByTextFingerprint(textContent, position)]
  /\ pc' = "done"
  /\ UNCHANGED <<document, selection, partial, structuralPath, position, textContent,
                 minConfidence, next, strategiesUsed, matches, errors, lastIndex,
                 found, pending, currentMatch, bestMatch, peer>>

\* StructuralAnalyzer.findByStructuralPath(textContent, position)
CallFindByStructuralPath ==
  /\ pc = "findByStructuralPath"
  /\ result' = [call |-> pc, range |-> SA_findByStructuralPath(textContent, position)]
  /\ pc' = "done"
  /\ UNCHANGED <<document, selection, partial, structuralPath, position, textContent,
                 minConfidence, next, strategiesUsed, matches, errors, lastIndex,
                 found, pending, currentMatch, bestMatch, peer>>

\* calculateTextSimilarity of the PositionService, as validatePosition calls
\* it, and of the TextMatchingAlgorithm, as its strategies call it, on a
\* candidate text and the stored selectedText
CallCalculateTextSimilarity ==
  /\ pc = "calculateTextSimilarity"
  /\ result' = [call |-> pc,
                orchestrator |->
                  PS_calculateTextSimilarity(textContent,
                                             position.primary.selectedText),
                strategies |->
                  TMA_calculateTextSimilarity(position.primary.selectedText,
                                              textContent)]
  /\ pc' = "done"
  /\ UNCHANGED <<document, selection, partial, structuralPath, position, textContent,
                 minConfidence, next, strategiesUsed, matches, errors, lastIndex,
                 found, pending, currentMatch, bestMatch, peer>>

StrategyNext ==
  \/ CallFindByTextFingerprint
  \/ CallFindByStructuralPath
  \/ CallCalculateTextSimilarity

StrategySpec == StrategyInit /\ [][StrategyNext]_vars

\* whether the call of fn has returned
Called(fn) == result # Null /\ "call" \in DOMAIN result /\ result.call = fn

\* C23: findByTextFingerprint returns the first window of len(selectedText)
\* characters among those at the offsets 0, step, 2*step, ... (step =
\* max(1, floor(len(selectedText)/4))) that fit in the document whose trigram
\* set has Jaccard similarity above 0.3 with the stored fingerprint and whose
\* text similarity to selectedText is above 0.8, with that similarity as
\* confidence; null if there is no such window
C23_FingerprintScan ==
  Called("findByTextFingerprint") =>
    LET targetText == position.primary.selectedText
        size == Len(targetText)
        step == Max(1, size \div 4)
        window(i) == Slice(textContent, i, i + size)
        similarity(i) == TMA_calculateTextSimilarity(targetText, window(i))
        qualifies(i) ==
          /\ compareFingerprints(position.fingerprint,
                                 TMA_generateTextFingerprint(window(i)))
          /\ RLt(Decimal[80], similarity(i))
        hits == {i \in 0..(Len(textContent) - size) :
                   i % step = 0 /\ qualifies(i)}
        first == CHOOSE i \in hits : \A j \in hits : i <= j
    IN  result.range
          = (IF hits = {} THEN Null
             ELSE TextRange(first, first + size, window(first), similarity(first)))

\* the words, with a capital first letter, stand at offset 3 and are returned
\* with confidence 0.95
C23_Witness ==
  /\ Called("findByTextFingerprint")
  /\ result.range # Null
  /\ result.range.startOffset = 3
  /\ result.range.confidence = Decimal[95]

\* C24: StructuralAnalyzer.findByStructuralPath: with paragraphIndex p set it
\* returns the first exact occurrence of selectedText in
\* document[max(0, 300p - 100), min(len, 300p + 600)) at its absolute offset
\* with confidence 0.8, or null if that window has none, elementPath not
\* being tried; with paragraphIndex absent and elementPath set, the first
\* occurrence of selectedText in the whole document with confidence 0.9;
\* null when neither is set or nothing is found
C24_StructuralSearch ==
  Called("findByStructuralPath") =>
    LET structural == position.structural
        target == position.primary.selectedText
        len == Len(textContent)
        p == structural.paragraphIndex[1]
        lo == IF structural.paragraphIndex # << >> THEN Max(0, 300 * p - 100) ELSE 0
        hi == IF structural.paragraphIndex # << >> THEN Min(len, 300 * p + 600) ELSE len
        hits == {i \in lo..(hi - Len(target)) : OccursAt(textContent, target, i)}
        first == CHOOSE i \in hits : \A j \in hits : i <= j
        confidence == IF structural.paragraphIndex # << >>
                      THEN Decimal[80] ELSE Decimal[90]
    IN  result.range
          = (IF structural.paragraphIndex = << >> /\ ~structural.elementPath
             THEN Null
             ELSE IF hits = {} THEN Null
             ELSE TextRange(first, first + Len(target), target, confidence))

\* paragraph 1 and an elementPath: "ab" at offset 199, before the window, is
\* passed over for the one at 202; the same text with paragraphIndex absent
\* gives 199
C24_Witness ==
  /\ Called("findByStructuralPath")
  /\ position.structural.paragraphIndex = <<1>>
  /\ position.structural.elementPath
  /\ IndexOf(textContent, position.primary.selectedText) = 199
  /\ result.range # Null
  /\ result.range.startOffset = 202
  /\ result.range.confidence = Decimal[80]

\* C25: the text similarity of the orchestrator (validatePosition, the
\* confidence blend) and the text similarity of the matching strategies give
\* the same value for every pair of strings: 1.0 if the strings are
\* identical, 0.95 if they are identical after normalization (whitespace
\* collapsed, every character that is neither a word character nor a CJK
\* ideograph removed, lower case), otherwise the Jaccard similarity of the
\* whitespace-split token sets of the normalized strings
C25_OneTextSimilarity ==
  Called("calculateTextSimilarity") =>
    LET text1 == textContent
        text2 == position.primary.selectedText
        normalized(t) == Trim(ToLower(SelectSeq(CollapseWhitespace(t), PS_KeepChar)))
        similarity ==
          IF text1 = text2 THEN One
          ELSE IF normalized(text1) = normalized(text2) THEN Decimal[95]
          ELSE Jaccard(SetOf(SplitWhitespace(normalized(text1))),
                       SetOf(SplitWhitespace(normalized(text2))), Zero)
    IN  /\ result.orchestrator = result.strategies
        /\ result.orchestrator = similarity

\* C26: every candidate that validatePosition has accepted is recorded with a
\* recomputed confidence of at least 0.5; so a call returns success = false
\* if and only if no strategy gave a candidate that passed validation, and
\* the matches of every failure result are empty
C26_AcceptedReachesHalf ==
  /\ Running \/ Returned =>
       \A i \in 1..Len(matches) :
         /\ validatePosition(matches[i].range, position)
         /\ RLe(Decimal[50], matches[i].confidence)
  /\ Returned =>
       /\ ~result.success <=> Len(ValidCandidates) = 0
       /\ ~result.success => result.matches = << >>

\* a failure after five attempts in which a strategy did find a range, which
\* validatePosition turned down
C26_Witness ==
  /\ Returned
  /\ ~result.success
  /\ result.matches = << >>
  /\ Len(Completed) = 5
  /\ \E i \in 1..5 :
       /\ StrategyRange(Completed[i]) # Null
       /\ ~validatePosition(StrategyRange(Completed[i]), position)

\* C27: validatePosition accepts a range only if its text equals the stored
\* selectedText once all whitespace and every character that is neither a
\* word character nor a CJK ideograph are removed and the letters are put in
\* lower case; so every recorded match, and every match of a result, has an
\* orchestrator text similarity of 1.0 or 0.95
C27_AcceptedEqualNormalized ==
  LET stored == position.primary.selectedText
      stripped(t) == ToLower(SelectSeq(t, PS_KeepChar))
      equalNormalized(range) ==
        /\ stripped(range.text) = stripped(stored)
        /\ PS_calculateTextSimilarity(range.text, stored) \in {One, Decimal[95]}
  IN  /\ Running \/ Returned =>
           /\ \A i \in 1..Len(Completed) :
                \A range \in {StrategyRange(Completed[i])} :
                  (range # Null /\ validatePosition(range, position))
                    => equalNormalized(range)
           /\ \A i \in 1..Len(matches) : equalNormalized(matches[i].range)
      /\ Returned =>
           \A i \in 1..Len(result.matches) : equalNormalized(result.matches[i].range)

\* a result with a match whose text is not the stored text but equals it
\* after normalization, and a strategy whose range of the same length was
\* turned down
C27_Witness ==
  /\ Returned
  /\ \E i \in 1..Len(result.matches) :
       /\ result.matches[i].range.text # position.primary.selectedText
       /\ PS_calculateTextSimilarity(result.matches[i].range.text,
                                     position.primary.selectedText) = Decimal[95]
  /\ \E i \in 1..Len(Completed) :
       /\ StrategyRange(Completed[i]) # Null
       /\ Len(StrategyRange(Completed[i]).text) = Len(position.primary.selectedText)
       /\ ~validatePosition(StrategyRange(Completed[i]), position)

\* C28 as stated: for a locator made by calculatePosition, whose
\* fingerprint is the hex digest of the trigram list, the text_fingerprint
\* strategy returns null on any document, and no recorded match and no match
\* of a result has the method text_fingerprint
C28_FingerprintNeverMatches ==
  /\ Running \/ Returned =>
       /\ Len(Completed) >= 3 => StrategyRange("text_fingerprint") = Null
       /\ \A i \in 1..Len(matches) : matches[i].method # "text_fingerprint"
  /\ Returned =>
       \A i \in 1..Len(result.matches) :
         result.matches[i].method # "text_fingerprint"

\* C28: for a locator made by calculatePosition, whose fingerprint is the hex
\* digest of the trigram list, a window of the document passes the
\* fingerprint comparison only if it holds a | and the digest is one of the
\* pieces that the | cut its trigram list into; so the range that the
\* text_fingerprint strategy returns holds a |, and on a document without |
\* the strategy returns null, and no recorded match and no match of a result
\* has the method text_fingerprint
C28_FingerprintNeedsBar ==
  LET size == Len(position.primary.selectedText)
      Cut(window) == SetOf(SplitOn(TMA_generateTextFingerprint(window), 124))
      Bar(text) == \E k \in 1..Len(text) : text[k] = 124
  IN  /\ Running \/ Returned =>
           /\ \A i \in 0..(Len(textContent) - size) :
                compareFingerprints(
                   position.fingerprint,
                   TMA_generateTextFingerprint(Slice(textContent, i, i + size)))
                  => /\ Bar(Slice(textContent, i, i + size))
                     /\ position.fingerprint
                          \in Cut(Slice(textContent, i, i + size))
           /\ (Len(Completed) >= 3 /\ StrategyRange("text_fingerprint") # Null)
                => Bar(StrategyRange("text_fingerprint").text)
           /\ \A i \in 1..Len(matches) :
                matches[i].method = "text_fingerprint" => Bar(matches[i].range.text)
      /\ Returned =>
           \A i \in 1..Len(result.matches) :
             result.matches[i].method = "text_fingerprint"
               => Bar(result.matches[i].range.text)

\* a call on a document with a |, made for a selection in a document
\* without one, has returned a success whose one match is that of the
\* text_fingerprint strategy
C28_Witness ==
  /\ Returned
  /\ \A k \in 1..Len(document) : document[k] # 124
  /\ result.success
  /\ Len(result.matches) = 1
  /\ result.matches[1].method = "text_fingerprint"
  /\ \E k \in 1..Len(result.matches[1].range.text) :
       result.matches[1].range.text[k] = 124

\* C29: the recomputed confidence of a candidate never exceeds 0.98; so a
\* call with minConfidence above 0.98 does not return from inside the loop:
\* when it returns, all five strategies have been attempted, and a success
\* is that of the best-candidate fallback
C29_ConfidenceCeiling ==
  /\ Running \/ Returned =>
       /\ \A i \in 1..Len(matches) : RLe(matches[i].confidence, Decimal[98])
       /\ \A i \in 1..Len(Completed) :
            \A range \in {StrategyRange(Completed[i])} :
              (range # Null /\ validatePosition(range, position))
                => RLe(calculateMatchConfidence(range, position), Decimal[98])
  /\ (Returned /\ RLt(Decimal[98], minConfidence)) =>
       /\ result.metadata.strategiesUsed = Strategies
       /\ result.metadata.totalAttempts = 5
       /\ result.success =>
            /\ result.matches = ValidCandidates
            /\ result.metadata.confidence
                 = bestMatchOf(ValidCandidates).confidence
            /\ result.position
                 = updatePosition(position, bestMatchOf(ValidCandidates).range)
            /\ RLt(result.metadata.confidence, minConfidence)

\* minConfidence 0.99 and the unchanged document: the primary recheck gives
\* the highest confidence there is, 0.98, the loop goes on through all five
\* strategies and the fallback returns the primary candidate among several
C29_Witness ==
  /\ Returned
  /\ minConfidence = Decimal[99]
  /\ textContent = document
  /\ result.success
  /\ result.metadata.totalAttempts = 5
  /\ Len(result.matches) >= 2
  /\ result.matches[1].method = "primary_position"
  /\ result.metadata.confidence = Decimal[98]

\* C30: in every result metadata.totalAttempts is the length of
\* metadata.strategiesUsed; a result returned after the loop has 5 attempts
\* and the five methods in cascade order, structural_path among them even
\* when the locator has no structural field to search by and the structural
\* search is skipped; a result returned from inside the loop has exactly the
\* winning match in matches
C30_AttemptsCounted ==
  Returned =>
    LET used == result.metadata.strategiesUsed
        shortCircuit ==
          /\ result.success
          /\ RLe(minConfidence, result.metadata.confidence)
          /\ Candidate(used[Len(used)]) # Null
          /\ RLe(minConfidence, Candidate(used[Len(used)]).confidence)
    IN  /\ result.metadata.totalAttempts = Len(used)
        /\ used = strategiesUsed
        /\ IF shortCircuit
           THEN /\ result.matches = <<Candidate(used[Len(used)])>>
                /\ result.matches[1].method = used[Len(used)]
                /\ result.matches[1].confidence = result.metadata.confidence
           ELSE /\ result.metadata.totalAttempts = 5
                /\ used = CascadeOrder
        /\ (/\ Len(used) >= 4
            /\ ~position.structural.elementPath
            /\ position.structural.paragraphIndex \in {<< >>, <<0>>})
             => /\ used[4] = "structural_path"
                /\ \A i \in 1..Len(result.matches) :
                     result.matches[i].method # "structural_path"

\* a call returned by the fallback after five attempts although the
\* structural strategy returned null without searching for the selected
\* text, which the document holds
C30_Witness ==
  /\ Returned
  /\ result.success
  /\ RLt(result.metadata.confidence, minConfidence)
  /\ result.metadata.totalAttempts = 5
  /\ result.metadata.strategiesUsed[4] = "structural_path"
  /\ ~position.structural.elementPath
  /\ StrategyRange("structural_path") = Null
  /\ SA_findByStructuralPath(textContent, position) # Null
  /\ Len(result.matches) >= 2

=============================================================================
